---- MODULE Spec2Model ----
(***************************************************************************)
(* Token market of the Acad Celestia backend: the TokenMarket, Wallet,     *)
(* TokenBalance and Transaction tables, the request handlers of            *)
(* TokenMarketController (buy, sell, swap, deposit, withdraw), the game    *)
(* and challenge stakes of GameService, the two processTransaction         *)
(* definitions of TokenMarketService and the scheduled passes of           *)
(* MarketSimulationService.                                                *)
(*                                                                         *)
(* Numbers.  The FLOAT columns are modelled in fixed point, every          *)
(* arithmetic result rounded to the nearest representable value:           *)
(*   Naira amounts   in 1/NairaScale  (kobo),                              *)
(*   token amounts   in 1/TokenScale  of a token,                          *)
(*   prices          in 1/PriceScale  Naira per token,                     *)
(*   rates, impacts  in 1/RateScale   (basis points).                      *)
(*                                                                         *)
(* Database.  Every handler that opens a sequelize transaction reads a     *)
(* consistent snapshot (MySQL/InnoDB, plain SELECT, no lock) when it       *)
(* starts, computes every value it will write from that snapshot, and its  *)
(* UPDATE/INSERT statements become visible together at commit.  A save()   *)
(* writes the changed columns only, as absolute values.                    *)
(***************************************************************************)
EXTENDS Integers, Sequences, FiniteSets, TLC

(* ------------------------------------------------------------------ *)
(* Bounds of the model                                                  *)
(* ------------------------------------------------------------------ *)

\* Requests and scheduled passes started in one behaviour.
MaxOps == 2

\* Days the clock advances in one behaviour.
MaxDays == 1

\* Concurrent request slots of the server (and of the cron runner).
Procs == {1, 2}

Users == {"u1", "u2"}

\* Institution codes that have a TokenMarket row.
Codes == {"A", "B"}

\* An institution code without a TokenMarket row.
NoMarketCode == "Z"

AllCodes == Codes \cup {NoMarketCode}

(* ------------------------------------------------------------------ *)
(* Fixed point                                                          *)
(* ------------------------------------------------------------------ *)

NairaScale == 100

TokenScale == 100

PriceScale == 1000

RateScale == 10000

\* Naira amounts written in whole Naira, token amounts in whole tokens.
Naira(n) == n * NairaScale

Tokens(n) == n * TokenScale

Abs(x) == IF x < 0 THEN 0 - x ELSE x

Min(a, b) == IF a < b THEN a ELSE b

Max(a, b) == IF a < b THEN b ELSE a

\* a / b rounded to the nearest integer (a >= 0, b > 0).
RoundDiv(a, b) == (a + (b \div 2)) \div b

\* a * b / c rounded to the nearest integer, without forming a * b.
MulDiv(a, b, c) == (a \div c) * b + RoundDiv((a % c) * b, c)

\* Token units per (kobo / price unit).
UnitFactor == (PriceScale * TokenScale) \div NairaScale

\* amount / currentValue: the tokens a Naira amount buys at a price.
TokensFor(naira, price) == MulDiv(naira, UnitFactor, price)

\* tokenAmount * currentValue: the Naira value of tokens at a price.
NairaFor(tokens, price) == MulDiv(tokens, price, UnitFactor)

\* value * rate, the rate in basis points.
Portion(value, rate) == MulDiv(value, rate, RateScale)

(* ------------------------------------------------------------------ *)
(* State                                                                *)
(* ------------------------------------------------------------------ *)

VARIABLES
  market,      \* TokenMarket rows, by institution code
  wallet,      \* Wallet rows, by user
  holding,     \* TokenBalance rows, by user and institution code
  txlog,       \* Transaction rows, in insertion order
  challenges,  \* User.metadata.challenges, by user
  now,         \* the clock, in days
  pc,          \* per slot: "idle" or "active" (between its reads and its commit)
  req,         \* per slot: the request or pass it runs
  snap,        \* per slot: the rows it read
  plan,        \* per slot: the statements it issues, in program order
  resp,        \* per slot: the response of its last finished request
  results,     \* per slot: the results array its pass has built, returned on commit
  applied,     \* per slot: how many statements of its request have taken effect
  nops         \* requests and passes started so far

vars == <<market, wallet, holding, txlog, challenges, now, pc, req, snap, plan, resp,
          results, applied, nops>>

dbVars == <<market, wallet, holding, txlog, challenges>>

\* TokenBalance.findOne() of a pair that has no row.
NoRow == [exists |-> FALSE, balance |-> 0]

Row(bal) == [exists |-> TRUE, balance |-> bal]

NoMarket == [exists |-> FALSE, currentValue |-> 0, totalSupply |-> 0,
             circulatingSupply |-> 0, liquidityPool |-> 0, marketCap |-> 0,
             volume24h |-> 0, lastUpdated |-> 0]

\* The committed rows, as one value.
DB == [market |-> market, wallet |-> wallet, holding |-> holding,
       txlog |-> txlog, challenges |-> challenges]

NoReq == [id |-> 0, op |-> "none", type |-> "", user |-> "", code |-> "", target |-> "",
          amount |-> 0, atomic |-> TRUE, leftOpen |-> FALSE]

NoSnap == [market |-> << >>, wallet |-> << >>, holding |-> << >>]

(* ------------------------------------------------------------------ *)
(* Statements and their effect on the rows                              *)
(* ------------------------------------------------------------------ *)

\* row.save(): the changed columns replaced, the others kept.
SetFields(row, upd) ==
  [f \in DOMAIN row |-> IF f \in DOMAIN upd THEN upd[f] ELSE row[f]]

WalletSave(u, upd) == [tbl |-> "wallet", user |-> u, set |-> upd]

\* TokenBalance.save() of a row that was read, or TokenBalance.create().
HoldingSave(u, c, bal, isNew) ==
  [tbl |-> "holding", user |-> u, code |-> c, row |-> Row(bal), create |-> isNew]

MarketSave(c, upd) == [tbl |-> "market", code |-> c, set |-> upd]

TxCreate(rec) == [tbl |-> "tx", rec |-> rec]

\* TokenMarket.create({...}): the INSERT of a market row.
MarketCreate(c, row) == [tbl |-> "newMarket", code |-> c, row |-> row]

UserSave(u, list) == [tbl |-> "user", user |-> u, challenges |-> list]

TxRecord(type, u, amount, fee) ==
  [transactionType |-> type, userId |-> u, amount |-> amount, fee |-> fee,
   tokenCode |-> "", tokenAmount |-> 0, tokenPrice |-> 0,
   targetTokenCode |-> "", targetTokenAmount |-> 0,
   priceImpact |-> 0, targetPriceImpact |-> 0]

\* Transaction.create as an overwrite of the table: the new record replaces the log.
ApplyStmtReplacingLog(db, s) ==
  CASE s.tbl = "wallet"  -> [db EXCEPT !.wallet[s.user] = SetFields(@, s.set)]
    [] s.tbl = "holding" -> [db EXCEPT !.holding[s.user][s.code] = s.row]
    [] s.tbl = "market"  -> [db EXCEPT !.market[s.code] = SetFields(@, s.set)]
    [] s.tbl = "tx"      -> [db EXCEPT !.txlog = <<s.rec>>]
    [] s.tbl = "user"    -> [db EXCEPT !.challenges[s.user] = s.challenges]
    [] s.tbl = "newMarket" -> [db EXCEPT !.market[s.code] = s.row]

ApplyStmt(db, s) ==
  CASE s.tbl = "wallet"  -> [db EXCEPT !.wallet[s.user] = SetFields(@, s.set)]
    [] s.tbl = "holding" -> [db EXCEPT !.holding[s.user][s.code] = s.row]
    [] s.tbl = "market"  -> [db EXCEPT !.market[s.code] = SetFields(@, s.set)]
    [] s.tbl = "tx"      -> [db EXCEPT !.txlog = Append(@, s.rec)]
    [] s.tbl = "user"    -> [db EXCEPT !.challenges[s.user] = s.challenges]
    [] s.tbl = "newMarket" -> [db EXCEPT !.market[s.code] = s.row]

RECURSIVE ApplyAll(_, _)
ApplyAll(db, stmts) ==
  IF stmts = << >> THEN db
  ELSE ApplyAll(ApplyStmt(db, Head(stmts)), Tail(stmts))

\* A handler's outcome: the response it returns at once (a rejection), or the
\* statements it issues (then it answers when it commits or fails).
Reject(msg) == [resp |-> msg, plan |-> << >>, results |-> << >>, closes |-> TRUE]

\* A return that answers without t.rollback() or t.commit().
ReturnOpen(msg) == [resp |-> msg, plan |-> << >>, results |-> << >>, closes |-> FALSE]

Issue(stmts) ==
  [resp |-> "success", plan |-> stmts, results |-> << >>, closes |-> TRUE]

\* A scheduled pass: its statements, and the results array it returns with success.
IssueWith(stmts, res) ==
  [resp |-> "success", plan |-> stmts, results |-> res, closes |-> TRUE]

(* ------------------------------------------------------------------ *)
(* TokenMarketController                                                *)
(* ------------------------------------------------------------------ *)

\* Math.max(liquidityPool, 1000)
MinLiquidityNaira == 1000

\* "* 0.01": 1% impact per liquidityPool ratio
ImpactRate == 100

\* maxPriceImpact = 0.05
MaxPriceImpact == 500

\* swap fee 0.5%
SwapFeeRate == 50

\* The mutant: the raw impact, without the cap.
PriceImpactUncapped(tradeSize, liquidityPool) ==
  MulDiv(tradeSize, ImpactRate, Max(liquidityPool, Naira(MinLiquidityNaira)))

\* priceImpact = min((size / max(liquidityPool, 1000)) * 0.01, 0.05)
PriceImpact(tradeSize, liquidityPool) ==
  Min(MulDiv(tradeSize, ImpactRate, Max(liquidityPool, Naira(MinLiquidityNaira))),
      MaxPriceImpact)

\* currentValue * (1 + priceImpact)
ValueUp(value, impact) == MulDiv(value, RateScale + impact, RateScale)

\* The mutant: the factor 1 - priceImpact cut to a whole number before it multiplies.
ValueDownWhole(value, impact) == value * ((RateScale - impact) \div RateScale)

\* currentValue * (1 - priceImpact)
ValueDown(value, impact) == MulDiv(value, RateScale - impact, RateScale)

\* The mutant: a buy admitted whatever the wallet holds.
BuyNotCoveredNever(balance, amount) == FALSE

\* wallet.nairaBalance < amount
BuyNotCovered(balance, amount) == balance < amount

\* The mutant: the sell is checked against a row only, not against its balance.
SellNotCoveredRowOnly(row, tokenAmount) == ~row.exists

\* !tokenBalance || tokenBalance.balance < tokenAmount
SellNotCovered(row, tokenAmount) == ~row.exists \/ row.balance < tokenAmount

\* tokenAmount = amount / tokenMarket.currentValue
BoughtTokens(amount, value) == TokensFor(amount, value)

\* The statements of a buy that passed its checks.
BuyStatements(db, u, c, amount) ==
  LET w == db.wallet[u]
      m == db.market[c]
      h == db.holding[u][c]
      tokenAmount == BoughtTokens(amount, m.currentValue)
      priceImpact == PriceImpact(amount, m.liquidityPool)
      newValue == ValueUp(m.currentValue, priceImpact)
      newSupply == m.circulatingSupply + tokenAmount
  IN << WalletSave(u, [nairaBalance |-> w.nairaBalance - amount]),
        HoldingSave(u, c, IF h.exists THEN h.balance + tokenAmount ELSE tokenAmount,
                    ~h.exists),
        MarketSave(c, [circulatingSupply |-> newSupply,
                       volume24h |-> m.volume24h + amount,
                       currentValue |-> newValue,
                       marketCap |-> NairaFor(newSupply, newValue),
                       lastUpdated |-> now]),
        TxCreate([TxRecord("buy", u, amount, 0) EXCEPT
                    !.tokenCode = c, !.tokenAmount = tokenAmount,
                    !.tokenPrice = newValue, !.priceImpact = priceImpact]) >>

BuyTokensOutcome(db, u, c, amount) ==
  IF amount <= 0 THEN ReturnOpen("Invalid amount")
  ELSE IF u \notin DOMAIN db.wallet THEN Reject("Wallet not found")
  ELSE IF BuyNotCovered(db.wallet[u].nairaBalance, amount) THEN Reject("Insufficient balance")
  ELSE IF ~db.market[c].exists THEN Reject("Token not found")
  ELSE Issue(BuyStatements(db, u, c, amount))

\* The statements of a sell that passed its checks.
SellStatements(db, u, c, tokenAmount) ==
  LET w == db.wallet[u]
      m == db.market[c]
      h == db.holding[u][c]
      nairaAmount == NairaFor(tokenAmount, m.currentValue)
      priceImpact == PriceImpact(nairaAmount, m.liquidityPool)
      newValue == ValueDown(m.currentValue, priceImpact)
      newSupply == m.circulatingSupply - tokenAmount
  IN << WalletSave(u, [nairaBalance |-> w.nairaBalance + nairaAmount]),
        HoldingSave(u, c, h.balance - tokenAmount, FALSE),
        MarketSave(c, [circulatingSupply |-> newSupply,
                       volume24h |-> m.volume24h + nairaAmount,
                       currentValue |-> newValue,
                       marketCap |-> NairaFor(newSupply, newValue),
                       lastUpdated |-> now]),
        TxCreate([TxRecord("sell", u, nairaAmount, 0) EXCEPT
                    !.tokenCode = c, !.tokenAmount = tokenAmount,
                    !.tokenPrice = newValue, !.priceImpact = priceImpact]) >>

SellTokensOutcome(db, u, c, tokenAmount) ==
  IF tokenAmount <= 0 THEN ReturnOpen("Invalid token amount")
  ELSE IF SellNotCovered(db.holding[u][c], tokenAmount) THEN Reject("Insufficient token balance")
  ELSE IF ~db.market[c].exists THEN Reject("Token not found")
  ELSE IF u \notin DOMAIN db.wallet THEN Reject("Wallet not found")
  ELSE Issue(SellStatements(db, u, c, tokenAmount))

\* The mutant: the target amount converted at the source market's price.
SwapTargetAmountSamePrice(nairaValueAfterFee, sourceValue, targetValue) ==
  TokensFor(nairaValueAfterFee, sourceValue)

\* targetTokenAmount = nairaValueAfterFee / targetTokenMarket.currentValue
SwapTargetAmount(nairaValueAfterFee, sourceValue, targetValue) ==
  TokensFor(nairaValueAfterFee, targetValue)

\* The statements of a swap that passed its checks.
SwapStatements(db, u, src, dst, sourceTokenAmount) ==
  LET sm == db.market[src]
      tm == db.market[dst]
      sh == db.holding[u][src]
      th == db.holding[u][dst]
      nairaValue == NairaFor(sourceTokenAmount, sm.currentValue)
      swapFee == Portion(nairaValue, SwapFeeRate)
      nairaValueAfterFee == nairaValue - swapFee
      targetTokenAmount ==
        SwapTargetAmount(nairaValueAfterFee, sm.currentValue, tm.currentValue)
      sourcePriceImpact == PriceImpact(nairaValue, sm.liquidityPool)
      targetPriceImpact == PriceImpact(nairaValueAfterFee, tm.liquidityPool)
      newSourceValue == ValueDown(sm.currentValue, sourcePriceImpact)
      newTargetValue == ValueUp(tm.currentValue, targetPriceImpact)
      newSourceSupply == sm.circulatingSupply - sourceTokenAmount
      newTargetSupply == tm.circulatingSupply + targetTokenAmount
  IN << HoldingSave(u, src, sh.balance - sourceTokenAmount, FALSE),
        HoldingSave(u, dst,
                    IF th.exists THEN th.balance + targetTokenAmount
                    ELSE targetTokenAmount,
                    ~th.exists),
        MarketSave(src, [circulatingSupply |-> newSourceSupply,
                         volume24h |-> sm.volume24h + nairaValue,
                         currentValue |-> newSourceValue,
                         marketCap |-> NairaFor(newSourceSupply, newSourceValue),
                         lastUpdated |-> now]),
        MarketSave(dst, [circulatingSupply |-> newTargetSupply,
                         volume24h |-> tm.volume24h + nairaValueAfterFee,
                         currentValue |-> newTargetValue,
                         marketCap |-> NairaFor(newTargetSupply, newTargetValue),
                         lastUpdated |-> now]),
        TxCreate([TxRecord("swap", u, nairaValue, swapFee) EXCEPT
                    !.tokenCode = src, !.tokenAmount = sourceTokenAmount,
                    !.tokenPrice = newSourceValue,
                    !.targetTokenCode = dst, !.targetTokenAmount = targetTokenAmount,
                    !.priceImpact = sourcePriceImpact,
                    !.targetPriceImpact = targetPriceImpact]) >>

\* The mutant: no pair of codes counts as the same institution.
SameInstitutionNever(sourceTokenCode, targetTokenCode) == FALSE

\* sourceTokenCode === targetTokenCode
SameInstitution(sourceTokenCode, targetTokenCode) == sourceTokenCode = targetTokenCode

SwapTokensOutcome(db, u, src, dst, sourceTokenAmount) ==
  IF sourceTokenAmount <= 0 THEN ReturnOpen("Invalid swap parameters")
  ELSE IF SameInstitution(src, dst)
    THEN ReturnOpen("Cannot swap tokens with the same institution code")
  ELSE IF SellNotCovered(db.holding[u][src], sourceTokenAmount)
    THEN Reject("Insufficient source token balance")
  ELSE IF ~db.market[src].exists THEN Reject("Source token not found")
  ELSE IF ~db.market[dst].exists THEN Reject("Target token not found")
  ELSE IF u \notin DOMAIN db.wallet THEN Reject("Wallet not found")
  ELSE Issue(SwapStatements(db, u, src, dst, sourceTokenAmount))

DepositNairaOutcome(db, u, amount) ==
  IF amount <= 0 THEN ReturnOpen("Invalid amount")
  ELSE IF u \notin DOMAIN db.wallet THEN Reject("Wallet not found")
  ELSE Issue(<< WalletSave(u, [nairaBalance |-> db.wallet[u].nairaBalance + amount]),
                TxCreate(TxRecord("deposit", u, amount, 0)) >>)

\* The mutant: a withdrawal admitted whatever the wallet holds.
WithdrawNotCoveredNever(balance, amount) == FALSE

\* wallet.nairaBalance < amount
WithdrawNotCovered(balance, amount) == balance < amount

WithdrawNairaOutcome(db, u, amount) ==
  IF amount <= 0 THEN ReturnOpen("Invalid amount")
  ELSE IF u \notin DOMAIN db.wallet THEN Reject("Wallet not found")
  ELSE IF WithdrawNotCovered(db.wallet[u].nairaBalance, amount)
    THEN Reject("Insufficient balance")
  ELSE Issue(<< WalletSave(u, [nairaBalance |-> db.wallet[u].nairaBalance - amount]),
                TxCreate(TxRecord("withdraw", u, amount, 0)) >>)

\* The mutant: a read that reports how many requests the server has taken so far in
\* place of the row's volume.
MarketStatsCounting(m, c) ==
  [institutionCode |-> c, currentValue |-> m.currentValue, change24h |-> 0,
   volume24h |-> nops, marketCap |-> m.marketCap,
   circulatingSupply |-> m.circulatingSupply, totalSupply |-> m.totalSupply,
   liquidityPool |-> m.liquidityPool, lastUpdated |-> m.lastUpdated]

\* The columns of a TokenMarket row as the reads return them; change24h is written
\* when the row is created (0) and by no handler after that.
MarketStats(m, c) ==
  [institutionCode |-> c, currentValue |-> m.currentValue, change24h |-> 0,
   volume24h |-> m.volume24h, marketCap |-> m.marketCap,
   circulatingSupply |-> m.circulatingSupply, totalSupply |-> m.totalSupply,
   liquidityPool |-> m.liquidityPool, lastUpdated |-> m.lastUpdated]

\* getMarketStatsData(institutionCode) and InstitutionService.getTokenMarket
\* (institutionCode): one findOne, no write.
GetMarketOutcome(db, c, failure) ==
  IF ~db.market[c].exists
    THEN [resp |-> failure, plan |-> << >>, results |-> << >>]
  ELSE [resp |-> "success", plan |-> << >>, results |-> << MarketStats(db.market[c], c) >>]

\* The orders in which findAll({ order: [['currentValue', 'DESC']] }) may return the
\* rows: any order of the existing rows with the values not increasing.
MarketsByValue(db) ==
  LET codes == {c \in AllCodes : db.market[c].exists}
      n == Cardinality(codes)
  IN {s \in [1..n -> codes] :
        /\ \A i, j \in 1..n : i # j => s[i] # s[j]
        /\ \A i, j \in 1..n :
             i < j => db.market[s[i]].currentValue >= db.market[s[j]].currentValue}

\* InstitutionService.getAllTokenMarkets(), the rows in the order `order`.
GetAllTokenMarketsOutcome(db, order) ==
  [resp |-> "success", plan |-> << >>,
   results |-> [i \in DOMAIN order |-> MarketStats(db.market[order[i]], order[i])]]

(* ------------------------------------------------------------------ *)
(* GameService                                                          *)
(* ------------------------------------------------------------------ *)

\* The payout factor of a won game: coin_flip 2x, dice_roll 3x, number_guess 10x.
Payout(gameType) ==
  CASE gameType = "coin_flip" -> 2
    [] gameType = "dice_roll" -> 3
    [] gameType = "number_guess" -> 10

GameTypes == {"coin_flip", "dice_roll", "number_guess"}

\* playGame; `won` is the random draw's outcome.
PlayGameOutcome(db, u, gameType, stakeAmount, won) ==
  IF u \notin DOMAIN db.wallet THEN Reject("Wallet not found")
  ELSE IF db.wallet[u].nairaBalance < stakeAmount THEN Reject("Insufficient balance")
  ELSE IF gameType \notin GameTypes THEN Reject("Invalid game type")
  ELSE LET winAmount == IF won THEN stakeAmount * Payout(gameType) ELSE 0
           staked == db.wallet[u].nairaBalance - stakeAmount
       IN Issue(<< WalletSave(u, [nairaBalance |->
                                    IF winAmount > 0 THEN staked + winAmount ELSE staked]),
                   TxCreate(TxRecord("game", u,
                                     IF won THEN winAmount ELSE 0 - stakeAmount, 0)) >>)

\* The hold challenge: 5% return on the stake.
HoldRewardRate == 500

\* startChallenge(userId, 'hold', {amount, institutionCode})
StartHoldChallengeOutcome(db, u, c, stakingAmount) ==
  IF u \notin DOMAIN db.wallet THEN Reject("Wallet not found")
  ELSE IF ~db.market[c].exists THEN Reject("Token market not found")
  ELSE IF db.wallet[u].nairaBalance < stakingAmount THEN Reject("Insufficient balance")
  ELSE Issue(<< WalletSave(u, [nairaBalance |-> db.wallet[u].nairaBalance - stakingAmount]),
                TxCreate(TxRecord("stake", u, stakingAmount, 0)),
                UserSave(u, Append(db.challenges[u],
                                   [type |-> "hold", status |-> "active",
                                    institutionCode |-> c,
                                    stakingAmount |-> stakingAmount,
                                    reward |-> Portion(stakingAmount, HoldRewardRate)])) >>)

\* A challenge of user.metadata.challenges, as startChallenge stores it; its id is
\* its place in the array. endDate counts half days, and is odd: a challenge ends in
\* the course of a day, never at the instant a day begins.
Challenge(type, c, stakingAmount, reward, endDate) ==
  [type |-> type, status |-> "active", institutionCode |-> c,
   stakingAmount |-> stakingAmount, reward |-> reward, endDate |-> endDate,
   readyToClaim |-> FALSE, holdingProcessed |-> FALSE]

\* The diversification challenge's goal: three institutions.
DiversificationGoal == 3

\* now > endDate
Expired(challenge, today) == 2 * today > challenge.endDate

\* checkChallengeProgress(userId, challengeId).isCompleted
IsCompleted(db, u, challenge, today) ==
  CASE challenge.type = "hold" -> 2 * today >= challenge.endDate
    [] challenge.type = "diversification" ->
         Cardinality({c \in AllCodes : /\ db.holding[u][c].exists
                                       /\ db.holding[u][c].balance > 0})
           >= DiversificationGoal
    [] OTHER -> FALSE

\* The Transaction record of a challenge: metadata.challengeId.
ForChallenge(rec, id) ==
  [f \in DOMAIN rec \cup {"challengeId"} |-> IF f = "challengeId" THEN id ELSE rec[f]]

\* completeChallenge(userId, challengeId)
CompleteChallengeOutcome(db, u, challengeId, today) ==
  IF u \notin DOMAIN db.challenges THEN Reject("User or challenges not found")
  ELSE IF challengeId \notin DOMAIN db.challenges[u] THEN Reject("Challenge not found")
  ELSE LET challenge == db.challenges[u][challengeId]
       IN IF ~IsCompleted(db, u, challenge, today)
            THEN Reject("Challenge is not completed yet")
          ELSE IF challenge.status = "completed"
            THEN Reject("Challenge reward already claimed")
          ELSE IF u \notin DOMAIN db.wallet THEN Reject("Wallet not found")
          ELSE Issue(<< WalletSave(u, [nairaBalance |->
                                         db.wallet[u].nairaBalance + challenge.reward]),
                        UserSave(u, [db.challenges[u] EXCEPT
                                       ![challengeId].status = "completed"]),
                        TxCreate(ForChallenge(TxRecord("game", u, challenge.reward, 0),
                                              challengeId)) >>)

\* The rows of User.findAll(), in order.
UserOrder == <<"u1", "u2">>

\* const result = await this.completeChallenge(user.id, challenge.id): a call the
\* pass makes, with a transaction of its own.
CompleteChallengeCall(u, challengeId) == [tbl |-> "call", user |-> u, index |-> challengeId]

\* The expired hold challenges of one user, which processActiveChallenges completes.
CallsFor(db, u, today) ==
  LET list == db.challenges[u]
      ids == [i \in 1..Len(list) |-> i]
      due == SelectSeq(ids, LAMBDA i : /\ list[i].status = "active"
                                       /\ Expired(list[i], today)
                                       /\ list[i].type = "hold")
  IN [k \in 1..Len(due) |-> CompleteChallengeCall(u, due[k])]

\* One challenge as processActiveChallenges leaves it in its own copy of the array.
ProcessedChallenge(db, u, challenge, today) ==
  IF challenge.status # "active" THEN challenge
  ELSE IF Expired(challenge, today)
    THEN IF challenge.type = "hold" THEN challenge
         ELSE [challenge EXCEPT !.status = "expired"]
  ELSE IF IsCompleted(db, u, challenge, today)
    THEN [challenge EXCEPT !.readyToClaim = TRUE]
  ELSE challenge

\* updated = true
ChallengeUpdated(db, u, challenge, today) ==
  /\ challenge.status = "active"
  /\ \/ Expired(challenge, today) /\ challenge.type # "hold"
     \/ ~Expired(challenge, today) /\ IsCompleted(db, u, challenge, today)

\* if (updated) { user.metadata.challenges = challenges; await user.save(...) }
SavesFor(db, u, today) ==
  LET list == db.challenges[u]
  IN IF \E i \in DOMAIN list : ChallengeUpdated(db, u, list[i], today)
       THEN << UserSave(u, [i \in DOMAIN list |->
                              ProcessedChallenge(db, u, list[i], today)]) >>
       ELSE << >>

RECURSIVE OverUsers(_, _)
OverUsers(users, byUser) ==
  IF users = << >> THEN << >>
  ELSE byUser[Head(users)] \o OverUsers(Tail(users), byUser)

\* processActiveChallenges: the calls of completeChallenge, each committed on its
\* own, and the saves of the pass's own transaction.
ProcessActiveChallengesOutcome(db, today) ==
  Issue(OverUsers(UserOrder, [u \in Users |-> CallsFor(db, u, today)])
        \o OverUsers(UserOrder, [u \in Users |-> SavesFor(db, u, today)]))

\* processExpiredHoldings for one user from challenge i on: the stake of every
\* expired hold challenge goes back to the wallet.
RECURSIVE ExpiredHoldings(_, _, _, _, _, _)
ExpiredHoldings(db, u, i, balance, list, today) ==
  IF i > Len(list)
    THEN IF list # db.challenges[u] THEN << UserSave(u, list) >> ELSE << >>
  ELSE LET challenge == list[i]
       IN IF /\ challenge.type = "hold"
             /\ challenge.status = "active"
             /\ ~challenge.holdingProcessed
             /\ Expired(challenge, today)
             /\ u \in DOMAIN db.wallet
            THEN << WalletSave(u, [nairaBalance |-> balance + challenge.stakingAmount]),
                    TxCreate(ForChallenge(TxRecord("unstake", u,
                                                   challenge.stakingAmount, 0), i)) >>
                 \o ExpiredHoldings(db, u, i + 1, balance + challenge.stakingAmount,
                                    [list EXCEPT ![i].holdingProcessed = TRUE,
                                                 ![i].status = "expired"], today)
          ELSE ExpiredHoldings(db, u, i + 1, balance, list, today)

ProcessExpiredHoldingsOutcome(db, today) ==
  Issue(OverUsers(UserOrder,
                  [u \in Users |-> ExpiredHoldings(db, u, 1, db.wallet[u].nairaBalance,
                                                   db.challenges[u], today)]))

(* ------------------------------------------------------------------ *)
(* TokenMarketService.processTransaction, the transactional definition  *)
(* ------------------------------------------------------------------ *)

\* MAX_TRANSACTION_AMOUNT, in tokens
MaxTransactionAmount == 1000

\* MIN_TRANSACTION_AMOUNT, in tokens
MinTransactionAmount == 1

\* MAX_WALLET_BALANCE
MaxWalletBalance == 10000

\* "Calculate cost with a 1% fee"
BuyFeeRate == 100

\* "Calculate proceeds with a 1.5% fee"
SellFeeRate == 150

\* Math.min(0.05, (amount / totalSupply) * 0.5)
ValueChangePercentage(amount, totalSupply) ==
  Min(MaxPriceImpact, MulDiv(amount, RateScale \div 2, totalSupply))

\* The mutant: the cost of a buy compared without its fee.
ServiceBuyNotCoveredFeeFree(balance, value, fee) == balance < value

\* wallet.balance < transactionCost, transactionCost = tokenValue * amount + fee
ServiceBuyNotCovered(balance, value, fee) == balance < value + fee

\* The mutant: any sell admitted.
ServiceSellNotCoveredNever(stakedBalance, amount) == FALSE

\* wallet.stakedBalance < amount
ServiceSellNotCovered(stakedBalance, amount) == stakedBalance < amount

\* The buy branch; wallet.balance is the wallet's currency balance.
ServiceBuyOutcome(db, u, amount, c) ==
  LET w == db.wallet[u]
      m == db.market[c]
      value == NairaFor(amount, m.currentValue)
      fee == Portion(value, BuyFeeRate)
      transactionCost == value + fee
      newTokenValue == ValueUp(m.currentValue, ValueChangePercentage(amount, m.totalSupply))
  IN IF ServiceBuyNotCovered(w.nairaBalance, value, fee) THEN Reject("Insufficient balance")
     ELSE IF w.nairaBalance - transactionCost + w.stakedBalance > Naira(MaxWalletBalance)
       THEN Reject("Maximum wallet balance would be exceeded")
     ELSE Issue(<< WalletSave(u, [nairaBalance |-> w.nairaBalance - transactionCost,
                                  stakedBalance |-> w.stakedBalance + amount]),
                   MarketSave(c, [currentValue |-> newTokenValue,
                                  totalSupply |-> m.totalSupply + amount,
                                  liquidityPool |-> m.liquidityPool + transactionCost,
                                  lastUpdated |-> now]),
                   TxCreate([TxRecord("buy", u, amount, fee) EXCEPT
                               !.tokenCode = c, !.tokenAmount = amount,
                               !.tokenPrice = newTokenValue]) >>)

\* The sell branch.
ServiceSellOutcome(db, u, amount, c) ==
  LET w == db.wallet[u]
      m == db.market[c]
      value == NairaFor(amount, m.currentValue)
      fee == Portion(value, SellFeeRate)
      transactionCost == value - fee
      newTokenValue ==
        ValueDown(m.currentValue, ValueChangePercentage(amount, m.totalSupply))
  IN IF ServiceSellNotCovered(w.stakedBalance, amount) THEN Reject("Insufficient tokens")
     ELSE Issue(<< WalletSave(u, [nairaBalance |-> w.nairaBalance + transactionCost,
                                  stakedBalance |-> w.stakedBalance - amount]),
                   MarketSave(c, [currentValue |-> newTokenValue,
                                  totalSupply |-> m.totalSupply - amount,
                                  liquidityPool |-> m.liquidityPool - transactionCost,
                                  lastUpdated |-> now]),
                   TxCreate([TxRecord("sell", u, amount, fee) EXCEPT
                               !.tokenCode = c, !.tokenAmount = amount,
                               !.tokenPrice = newTokenValue]) >>)

\* processTransaction(userId, transactionType, amount, institutionCode): every throw
\* is caught, the transaction rolled back and the message returned.
ProcessTransactionOutcome(db, u, transactionType, amount, c) ==
  IF amount <= 0 THEN Reject("Amount must be greater than zero")
  ELSE IF u \notin DOMAIN db.wallet THEN Reject("Wallet not found")
  ELSE IF ~db.market[c].exists THEN Reject("Token market not found for this institution")
  ELSE IF amount < Tokens(MinTransactionAmount) THEN Reject("Minimum transaction amount")
  ELSE IF amount > Tokens(MaxTransactionAmount) THEN Reject("Maximum transaction amount")
  ELSE IF transactionType = "buy" THEN ServiceBuyOutcome(db, u, amount, c)
  ELSE IF transactionType = "sell" THEN ServiceSellOutcome(db, u, amount, c)
  ELSE Reject("Invalid transaction type")

(* ------------------------------------------------------------------ *)
(* TokenMarketService, the definition that opens no transaction         *)
(* ------------------------------------------------------------------ *)

\* this.volatilityConstant = 0.05
VolatilityConstant == 500

\* this.dailyDecay = 0.001
DailyDecay == 10

\* this.maxDailyChange = 0.10
MaxDailyChange == 1000

\* this.transactionFee = 0.005
TransactionFee == 50

\* initializeMarket(institutionCode) with its default arguments
NewMarket ==
  [exists |-> TRUE, currentValue |-> PriceScale, totalSupply |-> Tokens(1000000),
   circulatingSupply |-> 0, liquidityPool |-> Naira(100000), marketCap |-> 0,
   volume24h |-> 0, lastUpdated |-> now]

\* (amount / totalSupply) * volatilityConstant, amounts in whole tokens
CalculatePriceImpact(amount, totalSupply) ==
  MulDiv(amount \div TokenScale, VolatilityConstant, totalSupply \div TokenScale)

\* value * (1 - dailyDecay) ^ days
RECURSIVE Decayed(_, _)
Decayed(value, days) ==
  IF days <= 0 THEN value
  ELSE Decayed(MulDiv(value, RateScale - DailyDecay, RateScale), days - 1)

\* The mutant: the decay of every day so far, whenever the market was last updated.
ApplyDailyDecayEveryCall(m) == Decayed(m.currentValue, now)

\* applyDailyDecay(market)
ApplyDailyDecay(m) == Decayed(m.currentValue, now - m.lastUpdated)

\* adjustTokenValue(market, transactionType, amount): the value it saves
AdjustedTokenValue(m, transactionType, amount) ==
  LET decayed == ApplyDailyDecay(m)
      priceImpact == CalculatePriceImpact(amount, m.totalSupply)
      moved == IF transactionType = "buy"
                 THEN MulDiv(decayed, RateScale + priceImpact, RateScale)
               ELSE IF transactionType = "sell"
                 THEN MulDiv(decayed, Max(RateScale - priceImpact, 0), RateScale)
               ELSE decayed
      maxValue == MulDiv(decayed, RateScale + MaxDailyChange, RateScale)
      minValue == MulDiv(decayed, RateScale - MaxDailyChange, RateScale)
  IN Min(maxValue, Max(minValue, moved))

\* processTransaction from its wallet check on: m is the market instance it holds, w
\* the wallet row it reads. Each statement is sent on its own.
ProcessTransactionNoTxOutcome(m, w, u, transactionType, amount, c) ==
  LET fee == Portion(amount, TransactionFee)
      newValue == AdjustedTokenValue(m, transactionType, amount)
  IN IF transactionType = "sell" /\ w.nairaBalance < amount
       THEN Reject("Insufficient balance")
     ELSE Issue(<< MarketSave(c, [currentValue |-> newValue, lastUpdated |-> now]),
                   WalletSave(u, [nairaBalance |->
                                    IF transactionType = "buy"
                                      THEN w.nairaBalance + amount
                                    ELSE w.nairaBalance - amount]),
                   MarketSave(c, [liquidityPool |-> m.liquidityPool + fee]),
                   TxCreate([TxRecord(transactionType, u, amount, fee) EXCEPT
                               !.tokenCode = c, !.tokenPrice = newValue]) >>)

(* ------------------------------------------------------------------ *)
(* MarketSimulationService                                              *)
(* ------------------------------------------------------------------ *)

Sign(x) == IF x < 0 THEN 0 - 1 ELSE IF x > 0 THEN 1 ELSE 0

\* a * b / c rounded to the nearest integer, a of either sign.
SignedMulDiv(a, b, c) == Sign(a) * MulDiv(Abs(a), b, c)

\* "more than 20% in a day", in basis points
BreakerThreshold == 2000

\* correctionFactor = 0.5, in basis points
CorrectionFactor == 5000

\* market.currentValue / (1 + getRandomFactor() * 0.2); the factor in hundredths.
HistoricalValue(currentValue, randomFactor) ==
  MulDiv(currentValue, RateScale, RateScale + randomFactor * 20)

\* ((currentValue - historicalValue) / historicalValue) * 100, in basis points
PriceChangePercent(currentValue, historicalValue) ==
  SignedMulDiv(currentValue - historicalValue, RateScale, historicalValue)

\* The mutant: the change brought back to the threshold.
CorrectedChangeToThreshold(priceChangePercent) ==
  Sign(priceChangePercent) * BreakerThreshold

\* excessChange = priceChangePercent - sign * 20;
\* correctedChange = priceChangePercent - excessChange * correctionFactor
CorrectedChange(priceChangePercent) ==
  LET excessChange == priceChangePercent - Sign(priceChangePercent) * BreakerThreshold
  IN priceChangePercent - SignedMulDiv(excessChange, CorrectionFactor, RateScale)

\* The loop body of applyMarketControls for one market and one random draw.
ControlOf(db, c, randomFactor) ==
  LET m == db.market[c]
      historicalValue == HistoricalValue(m.currentValue, randomFactor)
      priceChangePercent == PriceChangePercent(m.currentValue, historicalValue)
      correctedChange == CorrectedChange(priceChangePercent)
      newValue == MulDiv(historicalValue, RateScale + correctedChange, RateScale)
  IN IF Abs(priceChangePercent) > BreakerThreshold
       THEN [stmts |-> << MarketSave(c, [currentValue |-> newValue,
                                         lastUpdated |-> now]) >>,
             result |-> [institutionCode |-> c, activated |-> TRUE,
                         oldValue |-> newValue, newValue |-> newValue,
                         priceChangePercent |-> priceChangePercent,
                         correctedChange |-> correctedChange]]
       ELSE [stmts |-> << >>,
             result |-> [institutionCode |-> c, activated |-> FALSE,
                         oldValue |-> m.currentValue, newValue |-> m.currentValue,
                         priceChangePercent |-> priceChangePercent,
                         correctedChange |-> priceChangePercent]]

\* The institution codes in the order findAll() returns their rows.
CodeOrder == <<"A", "B", "Z">>

\* The rows of TokenMarket.findAll().
MarketList(db) == SelectSeq(CodeOrder, LAMBDA c : db.market[c].exists)

RECURSIVE ControlsOf(_, _, _)
ControlsOf(db, codes, draw) ==
  IF codes = << >> THEN [stmts |-> << >>, results |-> << >>]
  ELSE LET one == ControlOf(db, Head(codes), draw[Head(codes)])
           rest == ControlsOf(db, Tail(codes), draw)
       IN [stmts |-> one.stmts \o rest.stmts, results |-> <<one.result>> \o rest.results]

\* applyMarketControls(); draw gives each market its getRandomFactor() value.
ApplyMarketControlsOutcome(db, draw) ==
  LET all == ControlsOf(db, MarketList(db), draw)
  IN IssueWith(all.stmts, all.results)

\* -5% and +5%, in basis points
MaxTickChange == 500

\* The mutant: the percentage as drawn.
ClampPercentageNone(priceChangePercentage) == priceChangePercentage

\* Math.max(-5, Math.min(5, priceChangePercentage))
ClampPercentage(priceChangePercentage) ==
  Max(0 - MaxTickChange, Min(MaxTickChange, priceChangePercentage))

\* volatility * marketSentiment * randomFactor, the three in hundredths, the product a
\* percentage in basis points, then the clamp.
PriceChangePercentage(d) ==
  LET product == d.volatility * d.marketSentiment * d.randomFactor
  IN ClampPercentage(Sign(product) * RoundDiv(Abs(product), 10000))

\* market.currentValue * (1 + percentage / 100), the percentage in basis points.
MovedValue(currentValue, percentage) ==
  MulDiv(currentValue, RateScale + percentage, RateScale)

\* The loop body of simulateMarketMovements for one market and its three draws.
MovementOf(db, c, d) ==
  LET priceChangePercentage == PriceChangePercentage(d)
      newValue == MovedValue(db.market[c].currentValue, priceChangePercentage)
  IN [stmts |-> << MarketSave(c, [currentValue |-> newValue, lastUpdated |-> now]) >>,
      result |-> [institutionCode |-> c, oldValue |-> newValue, newValue |-> newValue,
                  priceChangePercentage |-> priceChangePercentage]]

\* The institution codes of a list of rows.
CodesOf(codes) == {codes[i] : i \in DOMAIN codes}

\* A pass's loop over the rows of findAll(): the statements and the results of its
\* bodies (body[c] for the row of c), in order.
RECURSIVE PassOver(_, _)
PassOver(codes, body) ==
  IF codes = << >> THEN [stmts |-> << >>, results |-> << >>]
  ELSE LET one == body[Head(codes)]
           rest == PassOver(Tail(codes), body)
       IN [stmts |-> one.stmts \o rest.stmts, results |-> <<one.result>> \o rest.results]

\* simulateMarketMovements(); draw gives each market its volatility, sentiment and
\* random factor.
SimulateMarketMovementsOutcome(db, draw) ==
  LET markets == MarketList(db)
      all == PassOver(markets, [c \in CodesOf(markets) |-> MovementOf(db, c, draw[c])])
  IN IssueWith(all.stmts, all.results)

\* The newsEvents table: impact in basis points, probability in thousandths.
NewsEvents ==
  << [title |-> "Positive Academic Rankings", impact |-> 300, probability |-> 50],
     [title |-> "Research Breakthrough", impact |-> 500, probability |-> 30],
     [title |-> "Budget Cuts Announced", impact |-> 0 - 400, probability |-> 40],
     [title |-> "Student Enrollment Increased", impact |-> 250, probability |-> 60],
     [title |-> "Campus Expansion", impact |-> 350, probability |-> 30],
     [title |-> "Faculty Strike", impact |-> 0 - 300, probability |-> 20],
     [title |-> "New Partnership with Industry", impact |-> 400, probability |-> 40],
     [title |-> "Sports Team Success", impact |-> 150, probability |-> 80],
     [title |-> "Tuition Fee Increase", impact |-> 0 - 200, probability |-> 50],
     [title |-> "Administrative Scandal", impact |-> 0 - 500, probability |-> 10] >>

\* The roulette: the first event whose cumulative probability reaches random (in
\* thousandths), the first event of the table when none does.
RECURSIVE SelectFrom(_, _, _)
SelectFrom(i, cumulativeProbability, random) ==
  IF i > Len(NewsEvents) THEN NewsEvents[1]
  ELSE IF random <= cumulativeProbability + NewsEvents[i].probability THEN NewsEvents[i]
  ELSE SelectFrom(i + 1, cumulativeProbability + NewsEvents[i].probability, random)

SelectedEvent(random) == SelectFrom(1, 0, random)

\* The mutant: the variation added to the impact.
FinalImpactAdded(impact, impactVariation) == impact + impactVariation

\* selectedEvent.impact * impactVariation, the variation in hundredths.
FinalImpact(impact, impactVariation) ==
  Sign(impact) * RoundDiv(Abs(impact) * impactVariation, 100)

\* The loop body of simulateNewsEvents for one market; d carries the selected event
\* and the market's impactVariation.
NewsOf(db, c, d) ==
  LET finalImpact == FinalImpact(d.event.impact, d.impactVariation)
      newValue == MovedValue(db.market[c].currentValue, finalImpact)
  IN [stmts |-> << MarketSave(c, [currentValue |-> newValue, lastUpdated |-> now]) >>,
      result |-> [institutionCode |-> c, oldValue |-> newValue, newValue |-> newValue,
                  impactPercentage |-> finalImpact, event |-> d.event.title]]

\* simulateNewsEvents(): chance is the first Math.random() (in thousandths), random the
\* second; variation gives each market its impactVariation.  The event of the
\* return value is carried on each result.
SimulateNewsEventsOutcome(db, chance, random, variation) ==
  IF chance > 100
    THEN ReturnOpen("No significant news events today")
  ELSE LET selectedEvent == SelectedEvent(random)
           draw == [c \in DOMAIN variation |->
                      [event |-> selectedEvent, impactVariation |-> variation[c]]]
           markets == MarketList(db)
           all == PassOver(markets, [c \in CodesOf(markets) |-> NewsOf(db, c, draw[c])])
       IN IssueWith(all.stmts, all.results)

\* The reputationFactors table, in basis points.
ReputationFactors ==
  [HARV |-> 10200, MIT |-> 10150, STAN |-> 10100, OXFD |-> 10050, YALE |-> 9950,
   UCB |-> 9900]

\* reputationFactors[market.institutionCode] || reputationFactors.DEFAULT
RepFactor(c) ==
  IF c \in DOMAIN ReputationFactors THEN ReputationFactors[c] ELSE RateScale

\* The loop body of applyInstitutionReputationFactors for one market.
ReputationOf(db, c) ==
  LET oldValue == db.market[c].currentValue
      newValue == MulDiv(oldValue, RepFactor(c), RateScale)
  IN [stmts |-> << MarketSave(c, [currentValue |-> newValue, lastUpdated |-> now]) >>,
      result |-> [institutionCode |-> c, oldValue |-> oldValue, newValue |-> newValue,
                  changePercentage |->
                    SignedMulDiv(newValue - oldValue, RateScale, oldValue)]]

ApplyInstitutionReputationFactorsOutcome(db) ==
  LET markets == MarketList(db)
      all == PassOver(markets, [c \in CodesOf(markets) |-> ReputationOf(db, c)])
  IN IssueWith(all.stmts, all.results)

(* ------------------------------------------------------------------ *)
(* Requests: their inputs, their start, their commit or failure         *)
(* ------------------------------------------------------------------ *)

BuyAmounts == {Naira(1000), Naira(6000)}

SellAmounts == {Tokens(100), Tokens(1500)}

SwapAmounts == {Tokens(100), Tokens(1500)}

WalletAmounts == {Naira(1000), Naira(6000)}

StakeAmounts == {Naira(1000)}

Request(op, u, c, target, amount) ==
  [id |-> nops + 1, op |-> op, type |-> "", user |-> u, code |-> c, target |-> target,
   amount |-> amount, atomic |-> TRUE, leftOpen |-> FALSE]

\* The rows a transaction's reads see: the rows committed when it made its first read.
Snapshot == [market |-> market, wallet |-> wallet, holding |-> holding]

\* A handler runs up to its first write: it reads, checks, and either answers at
\* once or goes on to issue its statements.
Start(p, r, out) ==
  /\ pc[p] = "idle"
  /\ \A q \in Procs : q < p => pc[q] # "idle"   \* the first free slot serves it
  /\ nops < MaxOps
  /\ nops' = nops + 1
  /\ req' = [req EXCEPT ![p] = [r EXCEPT !.leftOpen = ~out.closes]]
  /\ applied' = [applied EXCEPT ![p] = 0]
  /\ results' = [results EXCEPT ![p] = out.results]
  /\ IF out.plan = << >>
       THEN /\ resp' = [resp EXCEPT ![p] = out.resp]
            /\ UNCHANGED <<pc, snap, plan>>
       ELSE /\ pc' = [pc EXCEPT ![p] = "active"]
            /\ snap' = [snap EXCEPT ![p] = Snapshot]
            /\ plan' = [plan EXCEPT ![p] = out.plan]
            /\ resp' = [resp EXCEPT ![p] = "pending"]
  /\ UNCHANGED <<dbVars, now>>

BuyTokens(p) ==
  \E u \in Users, c \in AllCodes, amount \in BuyAmounts :
    Start(p, Request("buy", u, c, "", amount), BuyTokensOutcome(DB, u, c, amount))

SellTokens(p) ==
  \E u \in Users, c \in Codes, tokenAmount \in SellAmounts :
    Start(p, Request("sell", u, c, "", tokenAmount),
          SellTokensOutcome(DB, u, c, tokenAmount))

SwapTokens(p) ==
  \E u \in Users, src \in Codes, dst \in Codes, tokenAmount \in SwapAmounts :
    Start(p, Request("swap", u, src, dst, tokenAmount),
          SwapTokensOutcome(DB, u, src, dst, tokenAmount))

DepositNaira(p) ==
  \E u \in Users, amount \in WalletAmounts :
    Start(p, Request("deposit", u, "", "", amount), DepositNairaOutcome(DB, u, amount))

WithdrawNaira(p) ==
  \E u \in Users, amount \in WalletAmounts :
    Start(p, Request("withdraw", u, "", "", amount), WithdrawNairaOutcome(DB, u, amount))

PlayGame(p) ==
  \E u \in Users, gameType \in GameTypes, stake \in StakeAmounts, won \in BOOLEAN :
    Start(p, Request("game", u, gameType, "", stake),
          PlayGameOutcome(DB, u, gameType, stake, won))

StartHoldChallenge(p) ==
  \E u \in Users, c \in Codes, stake \in StakeAmounts :
    Start(p, Request("stake", u, c, "", stake), StartHoldChallengeOutcome(DB, u, c, stake))

ServiceAmounts == {Tokens(100), Tokens(500), Tokens(1500)}

TransactionTypes == {"buy", "sell"}

ProcessTransaction(p) ==
  \E u \in Users, transactionType \in TransactionTypes, amount \in ServiceAmounts,
     c \in AllCodes :
    Start(p, [Request("processTransaction", u, c, "", amount) EXCEPT
                !.type = transactionType],
          ProcessTransactionOutcome(DB, u, transactionType, amount, c))

\* The values getRandomFactor() returns, in hundredths.
RandomFactors == {-150, -50, 50, 125, 200}

ApplyMarketControls(p) ==
  \E draw \in [CodesOf(MarketList(DB)) -> RandomFactors] :
    Start(p, Request("applyMarketControls", "", "", "", 0),
          ApplyMarketControlsOutcome(DB, draw))

\* Draws of calculateVolatility() (0.5 to 2.5), calculateMarketSentiment() (-1 to 1) and
\* getRandomFactor(), in hundredths.
MovementDraws ==
  { [volatility |-> 250, marketSentiment |-> 100, randomFactor |-> 300],
    [volatility |-> 250, marketSentiment |-> 0 - 100, randomFactor |-> 300],
    [volatility |-> 50, marketSentiment |-> 100, randomFactor |-> 50],
    [volatility |-> 250, marketSentiment |-> 100, randomFactor |-> 0 - 50] }

SimulateMarketMovements(p) ==
  \E draw \in [CodesOf(MarketList(DB)) -> MovementDraws] :
    Start(p, Request("simulateMarketMovements", "", "", "", 0),
          SimulateMarketMovementsOutcome(DB, draw))

\* Values of Math.random(), in thousandths: the chance of an event and the roulette.
Chances == {50, 600}

Randoms == {10, 60, 100, 500}

\* impactVariation, 0.8 to 1.2, in hundredths.
ImpactVariations == {80, 120}

SimulateNewsEvents(p) ==
  \E chance \in Chances, random \in Randoms,
     variation \in [CodesOf(MarketList(DB)) -> ImpactVariations] :
    Start(p, Request("simulateNewsEvents", "", "", "", 0),
          SimulateNewsEventsOutcome(DB, chance, random, variation))

ApplyInstitutionReputationFactors(p) ==
  Start(p, Request("applyInstitutionReputationFactors", "", "", "", 0),
        ApplyInstitutionReputationFactorsOutcome(DB))

\* An INSERT of a TokenBalance row whose (user, institution) pair has a row by now:
\* the unique index refuses it.
DuplicateRow(p) ==
  \E i \in 1..Len(plan[p]) :
    \/ /\ plan[p][i].tbl = "holding"
       /\ plan[p][i].create
       /\ holding[plan[p][i].user][plan[p][i].code].exists
    \/ /\ plan[p][i].tbl = "newMarket"
       /\ market[plan[p][i].code].exists

Finish(p, answer) ==
  /\ pc' = [pc EXCEPT ![p] = "idle"]
  /\ plan' = [plan EXCEPT ![p] = << >>]
  /\ snap' = [snap EXCEPT ![p] = NoSnap]
  /\ resp' = [resp EXCEPT ![p] = answer]
  /\ UNCHANGED <<req, now, nops>>

\* The pass in slot p has a call of completeChallenge to make before it goes on.
PendingCall(p) == plan[p] # << >> /\ Head(plan[p]).tbl = "call"

\* t.commit(): the transaction's statements take effect together.
Commit(p) ==
  /\ pc[p] = "active"
  /\ req[p].atomic
  /\ ~PendingCall(p)
  /\ ~DuplicateRow(p)
  /\ LET db == ApplyAll(DB, plan[p])
     IN /\ market' = db.market
        /\ wallet' = db.wallet
        /\ holding' = db.holding
        /\ txlog' = db.txlog
        /\ challenges' = db.challenges
  /\ applied' = [applied EXCEPT ![p] = Len(plan[p])]
  /\ Finish(p, "success")
  /\ UNCHANGED results

\* catch (error) { await t.rollback(); ... 500 }: nothing the transaction wrote stays.
Rollback(p) ==
  /\ Finish(p, "error")
  /\ results' = [results EXCEPT ![p] = << >>]
  /\ UNCHANGED <<dbVars, applied>>

\* The unique index of token_balances, or of token_markets, refuses the INSERT.
DuplicateKey(p) ==
  /\ pc[p] = "active"
  /\ req[p].atomic
  /\ DuplicateRow(p)
  /\ Rollback(p)

\* One of the transaction's statements throws (a database error).
WriteFails(p) ==
  /\ pc[p] = "active"
  /\ req[p].atomic
  /\ Rollback(p)

\* A read: it opens no transaction and answers from the rows as they are.
Read(p, r, out, codes) ==
  /\ pc[p] = "idle"
  /\ \A q \in Procs : q < p => pc[q] # "idle"
  /\ nops < MaxOps
  /\ nops' = nops + 1
  /\ req' = [req EXCEPT ![p] = r]
  /\ applied' = [applied EXCEPT ![p] = 0]
  /\ results' = [results EXCEPT ![p] = out.results]
  /\ resp' = [resp EXCEPT ![p] = out.resp]
  /\ snap' = [snap EXCEPT ![p] = [NoSnap EXCEPT !.market = [c \in codes |-> market[c]]]]
  /\ UNCHANGED <<dbVars, now, pc, plan>>

GetMarketStatsData(p) ==
  \E c \in AllCodes :
    Read(p, Request("getMarketStatsData", "", c, "", 0),
         GetMarketOutcome(DB, c, "Failed to get market stats"), {c})

InstitutionGetTokenMarket(p) ==
  \E c \in AllCodes :
    Read(p, Request("getTokenMarket", "", c, "", 0),
         GetMarketOutcome(DB, c, "Failed to get token market"), {c})

GetAllTokenMarkets(p) ==
  \E order \in MarketsByValue(DB) :
    Read(p, Request("getAllTokenMarkets", "", "", "", 0),
         GetAllTokenMarketsOutcome(DB, order), AllCodes)

NoTxAmounts == {Tokens(4000), Tokens(1000000)}

\* processTransaction without a transaction, up to its first await: the market read.
GetTokenMarketOf(p, users, codes) ==
  \E u \in users, transactionType \in TransactionTypes, amount \in NoTxAmounts,
     c \in codes :
    /\ pc[p] = "idle"
    /\ \A q \in Procs : q < p => pc[q] # "idle"
    /\ nops < MaxOps
    /\ nops' = nops + 1
    /\ req' = [req EXCEPT ![p] = [Request("processTransaction", u, c, "", amount) EXCEPT
                                   !.type = transactionType, !.atomic = FALSE]]
    /\ applied' = [applied EXCEPT ![p] = 0]
    /\ results' = [results EXCEPT ![p] = << >>]
    /\ snap' = [snap EXCEPT ![p] = [NoSnap EXCEPT !.market = [x \in {c} |-> market[c]]]]
    /\ pc' = [pc EXCEPT ![p] = IF market[c].exists THEN "findWallet"
                               ELSE "initializeMarket"]
    /\ resp' = [resp EXCEPT ![p] = "pending"]
    /\ UNCHANGED <<dbVars, now, plan>>

GetTokenMarket(p) == GetTokenMarketOf(p, Users, AllCodes)

\* market = await this.initializeMarket(institutionCode): the INSERT takes effect at
\* once; institution_code is unique, so it throws if the row exists by now.
InitializeMarket(p) ==
  /\ pc[p] = "initializeMarket"
  /\ LET c == req[p].code
     IN IF market[c].exists
          THEN /\ pc' = [pc EXCEPT ![p] = "idle"]
               /\ snap' = [snap EXCEPT ![p] = NoSnap]
               /\ resp' = [resp EXCEPT ![p] = "error"]
               /\ UNCHANGED <<market, applied>>
          ELSE /\ market' = [market EXCEPT ![c] = NewMarket]
               /\ applied' = [applied EXCEPT ![p] = @ + 1]
               /\ snap' = [snap EXCEPT ![p].market[c] = NewMarket]
               /\ pc' = [pc EXCEPT ![p] = "findWallet"]
               /\ UNCHANGED resp
  /\ UNCHANGED <<wallet, holding, txlog, challenges, now, req, plan, results, nops>>

\* Wallet.findOne, the checks, and the values every later statement writes.
FindWallet(p) ==
  /\ pc[p] = "findWallet"
  /\ LET r == req[p]
         out == ProcessTransactionNoTxOutcome(snap[p].market[r.code], wallet[r.user],
                                              r.user, r.type, r.amount, r.code)
     IN IF out.plan = << >>
          THEN /\ pc' = [pc EXCEPT ![p] = "idle"]
               /\ snap' = [snap EXCEPT ![p] = NoSnap]
               /\ resp' = [resp EXCEPT ![p] = out.resp]
               /\ UNCHANGED plan
          ELSE /\ pc' = [pc EXCEPT ![p] = "active"]
               /\ plan' = [plan EXCEPT ![p] = out.plan]
               /\ UNCHANGED <<snap, resp>>
  /\ UNCHANGED <<dbVars, now, req, results, applied, nops>>

\* The next await of a request that opened no transaction: its statement takes effect
\* at once; after the last one the request answers.
ExecuteNext(p) ==
  /\ pc[p] = "active"
  /\ ~req[p].atomic
  /\ LET db == ApplyStmt(DB, Head(plan[p]))
     IN /\ market' = db.market
        /\ wallet' = db.wallet
        /\ holding' = db.holding
        /\ txlog' = db.txlog
        /\ challenges' = db.challenges
  /\ applied' = [applied EXCEPT ![p] = @ + 1]
  /\ IF Len(plan[p]) = 1
       THEN Finish(p, "success")
       ELSE /\ plan' = [plan EXCEPT ![p] = Tail(@)]
            /\ UNCHANGED <<pc, snap, resp, req, now, nops>>
  /\ UNCHANGED results

\* An await of such a request throws: catch (error) returns the message; what the
\* earlier statements wrote stays.
StatementFails(p) ==
  /\ pc[p] \in {"findWallet", "active"}
  /\ ~req[p].atomic
  /\ Finish(p, "error")
  /\ UNCHANGED <<dbVars, results, applied>>

\* initializeMarket(institutionCode) of the transactional service: 20% of the total
\* value as liquidity.
InitializedMarket ==
  [NewMarket EXCEPT !.liquidityPool = Naira(200000)]

\* initializeMarket up to its first await: TokenMarket.findOne.
InitializeMarketRequest(p) ==
  \E c \in AllCodes :
    /\ pc[p] = "idle"
    /\ \A q \in Procs : q < p => pc[q] # "idle"
    /\ nops < MaxOps
    /\ nops' = nops + 1
    /\ req' = [req EXCEPT ![p] = [Request("initializeMarket", "", c, "", 0) EXCEPT
                                   !.atomic = FALSE]]
    /\ applied' = [applied EXCEPT ![p] = 0]
    /\ results' = [results EXCEPT ![p] = << >>]
    /\ pc' = [pc EXCEPT ![p] = "findExisting"]
    /\ resp' = [resp EXCEPT ![p] = "pending"]
    /\ UNCHANGED <<dbVars, now, plan, snap>>

\* if (existingMarket) return { success: false, ... }
InitializeMarketFindOne(p) ==
  /\ pc[p] = "findExisting"
  /\ IF market[req[p].code].exists
       THEN /\ pc' = [pc EXCEPT ![p] = "idle"]
            /\ resp' = [resp EXCEPT ![p] =
                          "Token market already exists for this institution"]
       ELSE /\ pc' = [pc EXCEPT ![p] = "createMarket"]
            /\ UNCHANGED resp
  /\ UNCHANGED <<dbVars, now, req, snap, plan, results, applied, nops>>

\* TokenMarket.create on a table without the unique index: the row is written anyway.
InitializeMarketCreateUnchecked(p) ==
  /\ pc[p] = "createMarket"
  /\ market' = [market EXCEPT ![req[p].code] = InitializedMarket]
  /\ applied' = [applied EXCEPT ![p] = @ + 1]
  /\ resp' = [resp EXCEPT ![p] = "success"]
  /\ pc' = [pc EXCEPT ![p] = "idle"]
  /\ UNCHANGED <<wallet, holding, txlog, challenges, now, req, snap, plan, results,
                 nops>>

\* TokenMarket.create: institution_code is unique, so it throws if the row exists by
\* now, and catch (error) returns the message.
InitializeMarketCreate(p) ==
  /\ pc[p] = "createMarket"
  /\ LET c == req[p].code
     IN IF market[c].exists
          THEN /\ resp' = [resp EXCEPT ![p] = "error"]
               /\ UNCHANGED <<market, applied>>
          ELSE /\ market' = [market EXCEPT ![c] = InitializedMarket]
               /\ applied' = [applied EXCEPT ![p] = @ + 1]
               /\ resp' = [resp EXCEPT ![p] = "success"]
  /\ pc' = [pc EXCEPT ![p] = "idle"]
  /\ UNCHANGED <<wallet, holding, txlog, challenges, now, req, snap, plan, results,
                 nops>>

\* The lists the institutions API may return (short_name of each institution).
InstitutionLists == {<< >>, <<"Z">>, <<"A", "Z">>}

\* populateTokenMarkets: an existing row gets its name and type saved, a missing one
\* is created.
RECURSIVE PopulateStatements(_, _)
PopulateStatements(db, institutions) ==
  IF institutions = << >> THEN << >>
  ELSE LET c == Head(institutions)
           rest == PopulateStatements(db, Tail(institutions))
       IN IF db.market[c].exists THEN <<MarketSave(c, << >>)>> \o rest
          ELSE <<MarketCreate(c, NewMarket)>> \o rest

PopulateTokenMarketsOutcome(db, institutions) ==
  IF institutions = << >> THEN Reject("No institutions found")
  ELSE Issue(PopulateStatements(db, institutions))

PopulateTokenMarkets(p) ==
  \E institutions \in InstitutionLists :
    Start(p, Request("populateTokenMarkets", "", "", "", 0),
          PopulateTokenMarketsOutcome(DB, institutions))

ChallengeIds == {1, 2}

CompleteChallenge(p) ==
  \E u \in Users, challengeId \in ChallengeIds :
    Start(p, Request("completeChallenge", u, "", "", challengeId),
          CompleteChallengeOutcome(DB, u, challengeId, now))

ProcessActiveChallenges(p) ==
  Start(p, Request("processActiveChallenges", "", "", "", 0),
        ProcessActiveChallengesOutcome(DB, now))

ProcessExpiredHoldings(p) ==
  Start(p, Request("processExpiredHoldings", "", "", "", 0),
        ProcessExpiredHoldingsOutcome(DB, now))

\* The pass awaits completeChallenge: that call reads the rows as they are now and
\* commits its own transaction, whatever the pass's transaction does later.
CallCompleteChallenge(p) ==
  /\ pc[p] = "active"
  /\ PendingCall(p)
  /\ LET call == Head(plan[p])
         out == CompleteChallengeOutcome(DB, call.user, call.index, now)
         db == ApplyAll(DB, out.plan)
     IN /\ market' = db.market
        /\ wallet' = db.wallet
        /\ holding' = db.holding
        /\ txlog' = db.txlog
        /\ challenges' = db.challenges
  /\ plan' = [plan EXCEPT ![p] = Tail(@)]
  /\ UNCHANGED <<now, pc, req, snap, resp, results, applied, nops>>

\* A day passes.
Tick ==
  /\ now < MaxDays
  /\ now' = now + 1
  /\ UNCHANGED <<dbVars, pc, req, snap, plan, resp, results, applied, nops>>

(* ------------------------------------------------------------------ *)
(* The specification of the request handlers                            *)
(* ------------------------------------------------------------------ *)

InitMarket ==
  [c \in AllCodes |->
     CASE c = "A" -> [exists |-> TRUE, currentValue |-> 2 * PriceScale,
                      totalSupply |-> Tokens(1000000),
                      circulatingSupply |-> Tokens(100),
                      liquidityPool |-> Naira(100000),
                      marketCap |-> NairaFor(Tokens(100), 2 * PriceScale),
                      volume24h |-> 0, lastUpdated |-> 0]
       [] c = "B" -> [exists |-> TRUE, currentValue |-> 4 * PriceScale,
                      totalSupply |-> Tokens(1000000),
                      circulatingSupply |-> Tokens(500000),
                      liquidityPool |-> 0,
                      marketCap |-> NairaFor(Tokens(500000), 4 * PriceScale),
                      volume24h |-> 0, lastUpdated |-> 0]
       [] OTHER -> NoMarket]

InitWallet ==
  [u \in Users |->
     [nairaBalance |-> IF u = "u1" THEN Naira(6000) ELSE Naira(1000),
      stakedBalance |-> 0]]

InitHolding ==
  [u \in Users |-> [c \in AllCodes |-> IF u = "u1" /\ c = "A" THEN Row(Tokens(100)) ELSE NoRow]]

Init ==
  /\ market = InitMarket
  /\ wallet = InitWallet
  /\ holding = InitHolding
  /\ txlog = << >>
  /\ challenges = [u \in Users |-> << >>]
  /\ now = 0
  /\ pc = [p \in Procs |-> "idle"]
  /\ req = [p \in Procs |-> NoReq]
  /\ snap = [p \in Procs |-> NoSnap]
  /\ plan = [p \in Procs |-> << >>]
  /\ resp = [p \in Procs |-> ""]
  /\ results = [p \in Procs |-> << >>]
  /\ applied = [p \in Procs |-> 0]
  /\ nops = 0

Next ==
  \E p \in Procs :
    \/ BuyTokens(p)
    \/ SellTokens(p)
    \/ SwapTokens(p)
    \/ DepositNaira(p)
    \/ WithdrawNaira(p)
    \/ PlayGame(p)
    \/ StartHoldChallenge(p)
    \/ Commit(p)
    \/ DuplicateKey(p)
    \/ WriteFails(p)

Spec == Init /\ [][Next]_vars
(* ------------------------------------------------------------------ *)
(* The specification of the two trade executors side by side            *)
(* ------------------------------------------------------------------ *)

\* The service keeps a user's tokens in wallet.stakedBalance.
InitServiceWallet ==
  [u \in Users |->
     [nairaBalance |-> IF u = "u1" THEN Naira(6000) ELSE Naira(1000),
      stakedBalance |-> IF u = "u1" THEN Tokens(100) ELSE 0]]

InitSvc ==
  /\ market = InitMarket
  /\ wallet = InitServiceWallet
  /\ holding = InitHolding
  /\ txlog = << >>
  /\ challenges = [u \in Users |-> << >>]
  /\ now = 0
  /\ pc = [p \in Procs |-> "idle"]
  /\ req = [p \in Procs |-> NoReq]
  /\ snap = [p \in Procs |-> NoSnap]
  /\ plan = [p \in Procs |-> << >>]
  /\ resp = [p \in Procs |-> ""]
  /\ results = [p \in Procs |-> << >>]
  /\ applied = [p \in Procs |-> 0]
  /\ nops = 0

NextSvc ==
  \E p \in Procs :
    \/ ProcessTransaction(p)
    \/ BuyTokens(p)
    \/ SellTokens(p)
    \/ Commit(p)
    \/ DuplicateKey(p)
    \/ WriteFails(p)

SpecSvc == InitSvc /\ [][NextSvc]_vars

(* ------------------------------------------------------------------ *)
(* The specification of the executor that opens no transaction          *)
(* ------------------------------------------------------------------ *)

NextNoTx ==
  \/ \E p \in Procs :
       \/ GetTokenMarket(p)
       \/ InitializeMarket(p)
       \/ FindWallet(p)
       \/ ExecuteNext(p)
       \/ StatementFails(p)
  \/ Tick

SpecNoTx == Init /\ [][NextNoTx]_vars

(* ------------------------------------------------------------------ *)
(* The specification of market creation                                 *)
(* ------------------------------------------------------------------ *)

NextCreate ==
  \/ \E p \in Procs :
       \/ GetTokenMarketOf(p, {"u1"}, {NoMarketCode})
       \/ InitializeMarket(p)
       \/ FindWallet(p)
       \/ ExecuteNext(p)
       \/ StatementFails(p)
       \/ InitializeMarketRequest(p)
       \/ InitializeMarketFindOne(p)
       \/ InitializeMarketCreate(p)
       \/ PopulateTokenMarkets(p)
       \/ Commit(p)
       \/ DuplicateKey(p)
       \/ WriteFails(p)
  \/ Tick

SpecCreate == Init /\ [][NextCreate]_vars

(* ------------------------------------------------------------------ *)
(* The specification of the operations that write the transaction log   *)
(* ------------------------------------------------------------------ *)

NextLog ==
  \E p \in Procs :
    \/ BuyTokens(p)
    \/ SellTokens(p)
    \/ SwapTokens(p)
    \/ DepositNaira(p)
    \/ WithdrawNaira(p)
    \/ Commit(p)
    \/ DuplicateKey(p)
    \/ WriteFails(p)
    \/ GetTokenMarketOf(p, {"u1"}, {"A"})
    \/ FindWallet(p)
    \/ ExecuteNext(p)
    \/ StatementFails(p)

SpecLog == Init /\ [][NextLog]_vars

(* ------------------------------------------------------------------ *)
(* The specification of the challenges and their scheduled passes       *)
(* ------------------------------------------------------------------ *)

\* u1 runs a hold challenge and a diversification challenge, u2 a hold challenge;
\* all three end today.
InitChallenges ==
  [u \in Users |->
     IF u = "u1"
       THEN << Challenge("hold", "A", Naira(1000), Portion(Naira(1000), HoldRewardRate), 1),
               Challenge("diversification", "", 0, Naira(50), 1) >>
       ELSE << Challenge("hold", "B", Naira(1000), Portion(Naira(1000), HoldRewardRate), 1) >>]

InitChallenge ==
  /\ market = InitMarket
  /\ wallet = InitWallet
  /\ holding = InitHolding
  /\ txlog = << >>
  /\ challenges = InitChallenges
  /\ now = 0
  /\ pc = [p \in Procs |-> "idle"]
  /\ req = [p \in Procs |-> NoReq]
  /\ snap = [p \in Procs |-> NoSnap]
  /\ plan = [p \in Procs |-> << >>]
  /\ resp = [p \in Procs |-> ""]
  /\ results = [p \in Procs |-> << >>]
  /\ applied = [p \in Procs |-> 0]
  /\ nops = 0

NextChallenge ==
  \/ \E p \in Procs :
       \/ CompleteChallenge(p)
       \/ ProcessActiveChallenges(p)
       \/ CallCompleteChallenge(p)
       \/ ProcessExpiredHoldings(p)
       \/ Commit(p)
       \/ WriteFails(p)
  \/ Tick

SpecChallenge == InitChallenge /\ [][NextChallenge]_vars

(* ------------------------------------------------------------------ *)
(* The specification of trades on a market that is nearly sold out      *)
(* ------------------------------------------------------------------ *)

\* The tokens of market B still out of circulation when the trades start.
RemainingSupply == Tokens(40)

InitSupplyMarket ==
  [InitMarket EXCEPT !["B"].circulatingSupply = InitMarket["B"].totalSupply - RemainingSupply,
                     !["B"].marketCap =
                       NairaFor(InitMarket["B"].totalSupply - RemainingSupply,
                                InitMarket["B"].currentValue)]

InitSupply ==
  /\ market = InitSupplyMarket
  /\ wallet = InitWallet
  /\ holding = InitHolding
  /\ txlog = << >>
  /\ challenges = [u \in Users |-> << >>]
  /\ now = 0
  /\ pc = [p \in Procs |-> "idle"]
  /\ req = [p \in Procs |-> NoReq]
  /\ snap = [p \in Procs |-> NoSnap]
  /\ plan = [p \in Procs |-> << >>]
  /\ resp = [p \in Procs |-> ""]
  /\ results = [p \in Procs |-> << >>]
  /\ applied = [p \in Procs |-> 0]
  /\ nops = 0

NextSupply ==
  \E p \in Procs :
    \/ BuyTokens(p)
    \/ SellTokens(p)
    \/ SwapTokens(p)
    \/ Commit(p)
    \/ DuplicateKey(p)
    \/ WriteFails(p)

SpecSupply == InitSupply /\ [][NextSupply]_vars

(* ------------------------------------------------------------------ *)
(* The specification of the market reads among trades                   *)
(* ------------------------------------------------------------------ *)

NextRead ==
  \E p \in Procs :
    \/ GetMarketStatsData(p)
    \/ InstitutionGetTokenMarket(p)
    \/ GetAllTokenMarkets(p)
    \/ BuyTokens(p)
    \/ SellTokens(p)
    \/ Commit(p)
    \/ DuplicateKey(p)
    \/ WriteFails(p)

SpecRead == Init /\ [][NextRead]_vars

(* ------------------------------------------------------------------ *)
(* The specification of the random-walk tick among buys                 *)
(* ------------------------------------------------------------------ *)

NextTick ==
  \E p \in Procs :
    \/ SimulateMarketMovements(p)
    \/ ApplyInstitutionReputationFactors(p)
    \/ BuyTokens(p)
    \/ Commit(p)
    \/ DuplicateKey(p)
    \/ WriteFails(p)

SpecTick == Init /\ [][NextTick]_vars

(* ------------------------------------------------------------------ *)
(* The specification of the news events                                 *)
(* ------------------------------------------------------------------ *)

NextNews ==
  \E p \in Procs :
    \/ SimulateNewsEvents(p)
    \/ Commit(p)
    \/ WriteFails(p)

SpecNews == Init /\ [][NextNews]_vars

(* ------------------------------------------------------------------ *)
(* The specification of the swaps, statement by statement               *)
(*                                                                      *)
(* Inside its transaction a handler awaits its statements one at a      *)
(* time.  An UPDATE or INSERT takes the row's exclusive lock and keeps  *)
(* it until the transaction ends; the plain SELECTs take none.  Here    *)
(* applied[p] counts the statements slot p's transaction has issued.    *)
(* ------------------------------------------------------------------ *)

\* Two statements write the same row.
SameRow(s, t) ==
  /\ s.tbl = t.tbl
  /\ CASE s.tbl = "wallet"  -> s.user = t.user
       [] s.tbl = "holding" -> s.user = t.user /\ s.code = t.code
       [] s.tbl = "market"  -> s.code = t.code
       [] s.tbl = "user"    -> s.user = t.user
       [] OTHER -> FALSE

\* Slot q's transaction holds the lock of the row that statement s writes.
HoldsLock(q, s) ==
  /\ pc[q] = "active"
  /\ \E i \in 1..applied[q] : SameRow(plan[q][i], s)

\* Slot p's next statement waits for a lock that slot q holds.
WaitsFor(p, q) ==
  /\ p # q
  /\ pc[p] = "active"
  /\ applied[p] < Len(plan[p])
  /\ HoldsLock(q, plan[p][applied[p] + 1])

\* await row.save({ transaction: t }) / Model.create(..., { transaction: t }): the next
\* statement of the handler, once no other transaction holds its row.
IssueNext(p) ==
  /\ pc[p] = "active"
  /\ req[p].atomic
  /\ applied[p] < Len(plan[p])
  /\ \A q \in Procs : ~WaitsFor(p, q)
  /\ applied' = [applied EXCEPT ![p] = @ + 1]
  /\ UNCHANGED <<dbVars, now, pc, req, snap, plan, resp, results, nops>>

\* await t.commit() after the last statement.
CommitIssued(p) ==
  /\ applied[p] = Len(plan[p])
  /\ Commit(p)

\* Two transactions wait for each other: the database ends one of them with a
\* deadlock error, the handler's catch rolls back and answers 500.
DeadlockVictim(p) ==
  /\ \E q \in Procs : WaitsFor(p, q) /\ WaitsFor(q, p)
  /\ results' = [results EXCEPT ![p] = << >>]
  /\ Finish(p, "Deadlock found when trying to get lock")
  /\ UNCHANGED <<dbVars, applied>>

\* The mutant: a failure that leaves in the tables what the handler had written.
IssueFailsKeepingWrites(p) ==
  /\ pc[p] = "active"
  /\ req[p].atomic
  /\ applied[p] < Len(plan[p])
  /\ LET db == ApplyAll(DB, SubSeq(plan[p], 1, applied[p]))
     IN /\ market' = db.market
        /\ wallet' = db.wallet
        /\ holding' = db.holding
        /\ txlog' = db.txlog
        /\ challenges' = db.challenges
  /\ results' = [results EXCEPT ![p] = << >>]
  /\ Finish(p, "error")
  /\ UNCHANGED applied

\* The next statement throws: catch (error) { await t.rollback(); ... 500 } undoes the
\* statements issued before it.
IssueFails(p) ==
  /\ pc[p] = "active"
  /\ req[p].atomic
  /\ applied[p] < Len(plan[p])
  /\ Rollback(p)

\* Both users hold a token, so that swaps in both directions pass their checks.
InitLockHolding ==
  [u \in Users |->
     [c \in AllCodes |->
        IF (u = "u1" /\ c = "A") \/ (u = "u2" /\ c = "B")
          THEN Row(Tokens(100)) ELSE NoRow]]

InitLock ==
  /\ market = InitMarket
  /\ wallet = InitWallet
  /\ holding = InitLockHolding
  /\ txlog = << >>
  /\ challenges = [u \in Users |-> << >>]
  /\ now = 0
  /\ pc = [p \in Procs |-> "idle"]
  /\ req = [p \in Procs |-> NoReq]
  /\ snap = [p \in Procs |-> NoSnap]
  /\ plan = [p \in Procs |-> << >>]
  /\ resp = [p \in Procs |-> ""]
  /\ results = [p \in Procs |-> << >>]
  /\ applied = [p \in Procs |-> 0]
  /\ nops = 0

NextLock ==
  \E p \in Procs :
    \/ SwapTokens(p)
    \/ IssueNext(p)
    \/ CommitIssued(p)
    \/ IssueFails(p)
    \/ DeadlockVictim(p)

SpecLock == InitLock /\ [][NextLock]_vars

(* ------------------------------------------------------------------ *)
(* The specification of everything that writes a price                  *)
(*                                                                      *)
(* The sells and swaps of the controller, the four passes, and          *)
(* processTransaction / adjustTokenValue with its decay, on the         *)
(* markets that exist.                                                  *)
(* ------------------------------------------------------------------ *)

NextPrice ==
  \/ \E p \in Procs :
       \/ SellTokens(p)
       \/ SwapTokens(p)
       \/ SimulateMarketMovements(p)
       \/ SimulateNewsEvents(p)
       \/ ApplyMarketControls(p)
       \/ ApplyInstitutionReputationFactors(p)
       \/ Commit(p)
       \/ DuplicateKey(p)
       \/ WriteFails(p)
       \/ GetTokenMarketOf(p, {"u1"}, Codes)
       \/ FindWallet(p)
       \/ ExecuteNext(p)
       \/ StatementFails(p)
  \/ Tick

SpecPrice == InitLock /\ [][NextPrice]_vars

(* ------------------------------------------------------------------ *)
(* The specification of the scheduled passes                            *)
(* ------------------------------------------------------------------ *)

NextSim ==
  \E p \in Procs :
    \/ ApplyMarketControls(p)
    \/ Commit(p)
    \/ WriteFails(p)

SpecSim == Init /\ [][NextSim]_vars

(* ------------------------------------------------------------------ *)
(* Properties of the request handlers                                   *)
(* ------------------------------------------------------------------ *)

TradeOps == {"buy", "sell", "swap"}

\* The step in which slot p's transaction commits.
Commits(p) == pc[p] = "active" /\ pc'[p] = "idle" /\ resp'[p] = "success"

\* The step in which slot p takes up a request.
Starts(p) == req'[p].id # req[p].id

\* The markets a trade writes.
TouchedMarkets(r) == IF r.op = "swap" THEN {r.code, r.target} ELSE {r.code}

\* |new - old| / old in whole per mille, fractions dropped: prices carry three
\* decimals, so a change of 5% of the old price is exact to within half a unit.
ChangePerMille(old, new) == (Abs(new - old) * 1000) \div old

Balance(row) == IF row.exists THEN row.balance ELSE 0

RECURSIVE SumOver(_, _)
SumOver(f, S) ==
  IF S = {} THEN 0
  ELSE LET x == CHOOSE y \in S : TRUE IN f[x] + SumOver(f, S \ {x})

\* C1: a committed buy, sell or swap leaves each market it writes at a price within
\* 5% of the price the trade read for it, whatever the trade's size and whatever
\* the market's liquidityPool (0 included).
C1_BoundedImpact ==
  [][\A p \in Procs :
       Commits(p) /\ req[p].op \in TradeOps =>
         \A c \in TouchedMarkets(req[p]) :
           ChangePerMille(snap[p].market[c].currentValue, market'[c].currentValue) <= 50]_vars

\* A buy large enough for the cap has committed on the market whose liquidityPool is 0,
\* and a swap has moved both of its markets.
C1_Witness ==
  /\ \E i \in 1..Len(txlog) :
       /\ txlog[i].transactionType = "buy"
       /\ market[txlog[i].tokenCode].liquidityPool = 0
       /\ txlog[i].priceImpact = MaxPriceImpact
       /\ ImpactRate * txlog[i].amount > MaxPriceImpact * Naira(MinLiquidityNaira)
  /\ \E i \in 1..Len(txlog) :
       /\ txlog[i].transactionType = "swap"
       /\ txlog[i].priceImpact > 0
       /\ txlog[i].targetPriceImpact > 0

\* C2: a committed buy of a Naira amount takes exactly the amount off the wallet and
\* adds (amount - fee) / price to the holding, the fee being amount * 1% and the
\* price the one the buy read.
C2_BuyConservation ==
  [][\A p \in Procs :
       Commits(p) /\ req[p].op = "buy" =>
         LET u == req[p].user
             c == req[p].code
             amount == req[p].amount
             fee == Portion(amount, BuyFeeRate)
         IN /\ wallet'[u].nairaBalance = snap[p].wallet[u].nairaBalance - amount
            /\ Balance(holding'[u][c]) =
                 Balance(snap[p].holding[u][c])
                   + TokensFor(amount - fee, snap[p].market[c].currentValue)]_vars

\* C3: no wallet balance and no token balance is ever negative, in the rows and in
\* the statements a transaction is about to commit: what a spend writes is the
\* balance it read less the full amount, never a clamped value.
C3_NonNegative ==
  /\ \A u \in Users : wallet[u].nairaBalance >= 0
  /\ \A u \in Users, c \in AllCodes : holding[u][c].balance >= 0
  /\ \A p \in Procs : \A i \in 1..Len(plan[p]) :
       LET s == plan[p][i]
           r == req[p]
       IN /\ s.tbl = "wallet" => s.set.nairaBalance >= 0
          /\ s.tbl = "holding" => s.row.balance >= 0
          /\ s.tbl = "wallet" /\ r.op \in {"withdraw", "buy", "stake"} =>
               s.set.nairaBalance = snap[p].wallet[r.user].nairaBalance - r.amount
          /\ s.tbl = "holding" /\ r.op = "sell" =>
               s.row.balance = snap[p].holding[r.user][r.code].balance - r.amount

\* Two withdrawals of a user's whole balance ran concurrently and both committed, and
\* a spend beyond the balance was rejected.
C3_Witness ==
  /\ Len(txlog) = 2
  /\ \A i \in 1..2 :
       /\ txlog[i].transactionType = "withdraw"
       /\ txlog[i].userId = "u1"
       /\ txlog[i].amount = InitWallet["u1"].nairaBalance
  /\ wallet["u1"].nairaBalance = 0

\* The buys committed on market c, in commit order.
BuysOn(c) == SelectSeq(txlog, LAMBDA t : t.transactionType = "buy" /\ t.tokenCode = c)

RECURSIVE SumTokens(_)
SumTokens(txs) == IF txs = << >> THEN 0 ELSE Head(txs).tokenAmount + SumTokens(Tail(txs))

RECURSIVE ValueAfter(_, _)
ValueAfter(value, txs) ==
  IF txs = << >> THEN value
  ELSE ValueAfter(ValueUp(value, Head(txs).priceImpact), Tail(txs))

\* C4: when the only trades committed on a market are two buys, its circulatingSupply
\* has grown by the sum of the two token amounts and its price is the initial price
\* moved by the two impacts one after the other.
C4_NoLostUpdate ==
  \A c \in Codes :
    LET buys == BuysOn(c)
    IN (Len(buys) = 2 /\ \A i \in 1..Len(txlog) :
                           txlog[i].transactionType \in TradeOps => txlog[i] = buys[1]
                             \/ txlog[i] = buys[2]) =>
         /\ market[c].circulatingSupply = InitMarket[c].circulatingSupply + SumTokens(buys)
         /\ market[c].currentValue = ValueAfter(InitMarket[c].currentValue, buys)

\* The sells of the two executors.
IsSell(r) == r.op = "sell" \/ (r.op = "processTransaction" /\ r.type = "sell")

\* The token balance a sell draws on: the TokenBalance row, or wallet.stakedBalance.
SellableTokens(r) ==
  IF r.op = "sell" THEN Balance(holding[r.user][r.code]) ELSE wallet[r.user].stakedBalance

InsufficientHoldings == {"Insufficient token balance", "Insufficient tokens"}

\* C5: a sell for more tokens than the user's holding has (or for a holding that has no
\* row) is answered with the insufficient-holdings error, issues no statement,
\* and leaves every TokenMarket, Wallet, TokenBalance and Transaction row as it was.
C5_SellRejected ==
  [][\A p \in Procs :
       LET r == req'[p]
       IN (/\ Starts(p)
           /\ IsSell(r)
           /\ market[r.code].exists
           /\ r.amount <= Tokens(MaxTransactionAmount) \/ r.op = "sell"
           /\ SellableTokens(r) < r.amount) =>
            /\ resp'[p] \in InsufficientHoldings
            /\ pc'[p] = "idle"
            /\ plan'[p] = << >>
            /\ UNCHANGED dbVars]_vars

\* The controller has turned down, as the second of two requests, a sell for more
\* tokens than the holding's row has, and the rows still are the initial ones.
C5_Witness ==
  /\ \E p \in Procs :
       /\ req[p].op = "sell"
       /\ req[p].id = 2
       /\ holding[req[p].user][req[p].code].exists
       /\ holding[req[p].user][req[p].code].balance < req[p].amount
       /\ resp[p] = "Insufficient token balance"
  /\ nops = 2
  /\ \A p \in Procs : pc[p] = "idle"
  /\ market = InitMarket /\ wallet = InitServiceWallet
  /\ holding = InitHolding /\ txlog = << >>

\* C7: a committed swap of sourceQty from market A into market B credits the target
\* holding with (sourceQty * priceA * (1 - 0.005)) / priceB, the prices being
\* the ones the swap read, to within one unit of the last decimal kept (the
\* fee is rounded on its own); the source holding and A's circulatingSupply go
\* down by sourceQty, B's circulatingSupply goes up by the quantity credited.
C7_SwapAmounts ==
  [][\A p \in Procs :
       Commits(p) /\ req[p].op = "swap" =>
         LET u == req[p].user
             a == req[p].code
             b == req[p].target
             sourceQty == req[p].amount
             priceA == snap[p].market[a].currentValue
             priceB == snap[p].market[b].currentValue
             targetQty ==
               TokensFor(MulDiv(NairaFor(sourceQty, priceA), RateScale - 50, RateScale),
                         priceB)
             credited == holding'[u][b].balance - Balance(snap[p].holding[u][b])
         IN /\ holding'[u][b].exists
            /\ Abs(credited - targetQty) <= 1
            /\ holding'[u][a].balance = snap[p].holding[u][a].balance - sourceQty
            /\ market'[a].circulatingSupply =
                 snap[p].market[a].circulatingSupply - sourceQty
            /\ market'[b].circulatingSupply =
                 snap[p].market[b].circulatingSupply + credited]_vars

\* The swap of 100 tokens of the market priced 2.000 into the market priced 4.000
\* has committed and has credited 49.75 tokens.
C7_Witness ==
  /\ InitMarket["A"].currentValue = 2 * PriceScale
  /\ InitMarket["B"].currentValue = 4 * PriceScale
  /\ Len(txlog) = 1
  /\ txlog[1].transactionType = "swap"
  /\ txlog[1].tokenCode = "A" /\ txlog[1].targetTokenCode = "B"
  /\ txlog[1].tokenAmount = Tokens(100)
  /\ 100 * txlog[1].targetTokenAmount = 4975 * TokenScale
  /\ holding[txlog[1].userId]["B"] = Row(txlog[1].targetTokenAmount)
  /\ market["A"].circulatingSupply = InitMarket["A"].circulatingSupply - Tokens(100)

HoldingsOf(c) == SumOver([u \in Users |-> Balance(holding[u][c])], Users)

InitHoldingsOf(c) == SumOver([u \in Users |-> Balance(InitHolding[u][c])], Users)

\* C9: for each institution, the market's circulatingSupply has changed since the
\* start by exactly as much as the users' token balances for it have, in sum.
C9_SupplyMatchesHoldings ==
  \A c \in Codes :
    market[c].circulatingSupply - InitMarket[c].circulatingSupply
      = HoldingsOf(c) - InitHoldingsOf(c)

\* The buys of the two executors.
IsBuy(r) == r.op = "buy" \/ (r.op = "processTransaction" /\ r.type = "buy")

\* What a buy costs, fee included: the controller's buy names the Naira amount and
\* takes no fee; the service's buy names tokens and adds 1% to their value.
FullCost(r) ==
  IF r.op = "buy" THEN r.amount
  ELSE NairaFor(r.amount, market[r.code].currentValue)
         + Portion(NairaFor(r.amount, market[r.code].currentValue), 100)

\* The service turns down a buy outside its per-transaction limits or for a missing
\* market before it looks at the wallet.
WithinLimits(r) ==
  r.op = "processTransaction" =>
    /\ market[r.code].exists
    /\ r.amount >= Tokens(MinTransactionAmount)
    /\ r.amount <= Tokens(MaxTransactionAmount)

\* C10: a buy goes ahead only when the wallet's balance covers its full cost, fee
\* included; a buy the balance does not cover is answered with the
\* insufficient-funds error, issues no statement and changes no row.
C10_BuyCovered ==
  [][\A p \in Procs :
       LET r == req'[p]
       IN Starts(p) /\ IsBuy(r) /\ WithinLimits(r) =>
            /\ pc'[p] = "active" => wallet[r.user].nairaBalance >= FullCost(r)
            /\ wallet[r.user].nairaBalance < FullCost(r) =>
                 /\ resp'[p] = "Insufficient balance"
                 /\ pc'[p] = "idle"
                 /\ plan'[p] = << >>
                 /\ UNCHANGED dbVars]_vars

\* The controller has committed a buy the wallet covered, and the service has turned
\* down a buy whose tokens alone the wallet would have covered, only not with
\* the fee.
C10_Witness ==
  /\ \E p \in Procs :
       /\ req[p].op = "processTransaction"
       /\ req[p].type = "buy"
       /\ resp[p] = "Insufficient balance"
       /\ wallet[req[p].user].nairaBalance
            >= NairaFor(req[p].amount, market[req[p].code].currentValue)
  /\ \E i \in 1..Len(txlog) :
       /\ txlog[i].transactionType = "buy"
       /\ txlog[i].fee = 0
       /\ wallet[txlog[i].userId].nairaBalance
            = InitServiceWallet[txlog[i].userId].nairaBalance - txlog[i].amount

\* C6: a buy, sell or swap that has ended in anything but success (a validation
\* error, a rejection, an error thrown by a statement) has none of its writes in
\* the rows.
C6_NoPartialMutation ==
  \A p \in Procs : pc[p] = "idle" /\ resp[p] # "success" => applied[p] = 0

\* A buy through the executor that opens no transaction has ended in an error after
\* its first statements: the market's price is the one the buy saved, no
\* Transaction row was written.
C6_Witness ==
  \E p \in Procs :
    /\ req[p].op = "processTransaction" /\ ~req[p].atomic /\ req[p].type = "buy"
    /\ pc[p] = "idle" /\ resp[p] = "error"
    /\ applied[p] = 1
    /\ market[req[p].code].currentValue > InitMarket[req[p].code].currentValue
    /\ wallet = InitWallet
    /\ txlog = << >>

(* ------------------------------------------------------------------ *)
(* Properties of the scheduled passes                                   *)
(* ------------------------------------------------------------------ *)

\* The results a pass that has ended with success returned.
Returned(p) == IF pc[p] = "idle" /\ resp[p] = "success" THEN results[p] ELSE << >>

C11_SameCodeSwapRejected ==
  [][\A p \in Procs :
       LET r == req'[p]
       IN Starts(p) /\ r.op = "swap" /\ r.code = r.target =>
            /\ resp'[p] = "Cannot swap tokens with the same institution code"
            /\ pc'[p] = "idle"
            /\ plan'[p] = << >>
            /\ UNCHANGED dbVars]_vars

\* A user who holds enough of the source token has asked to swap it into itself, as
\* the second request after a committed trade, and has been turned down; the
\* Transaction table holds the first trade's row only.
C11_Witness ==
  \E p \in Procs :
    /\ req[p].op = "swap" /\ req[p].id = 2
    /\ req[p].code = req[p].target
    /\ holding[req[p].user][req[p].code].exists
    /\ holding[req[p].user][req[p].code].balance >= req[p].amount
    /\ resp[p] = "Cannot swap tokens with the same institution code"
    /\ Len(txlog) = 1

ReadOps == {"getMarketStatsData", "getTokenMarket", "getAllTokenMarkets"}

\* The rows a read returned, whatever their order.
RowsOf(res) == {res[i] : i \in DOMAIN res}

\* Slot p's last request was a read that has answered, and the rows it read are the
\* rows as they are now.
ReadStillCurrent(p) ==
  /\ req[p].op \in ReadOps
  /\ pc[p] = "idle"
  /\ \A c \in DOMAIN snap[p].market : snap[p].market[c] = market[c]

C13_NoSwapDeadlock ==
  \A p, q \in Procs :
    req[p].op = "swap" /\ req[q].op = "swap" => ~(WaitsFor(p, q) /\ WaitsFor(q, p))

\* The result a finished pass returned for market c.
ResultFor(p, c) ==
  results[p][CHOOSE i \in DOMAIN results[p] : results[p][i].institutionCode = c]

\* The only two requests so far were a random-walk tick, committed by slot p, and one buy
\* on market c, committed too.
TickAndBuyCommitted(p, c) ==
  /\ nops = 2
  /\ req[p].op = "simulateMarketMovements"
  /\ pc[p] = "idle" /\ resp[p] = "success"
  /\ Len(txlog) = 1 /\ Len(BuysOn(c)) = 1

\* C14: when a random-walk tick and a buy on the same market have both committed, however
\* they interleaved, the market's price composes the two changes: it is the
\* initial price moved by the tick's percentage and by the buy's impact, in
\* one order or the other.
C14_TickComposesWithTrade ==
  \A p \in Procs, c \in Codes :
    TickAndBuyCommitted(p, c) =>
      LET percentage == ResultFor(p, c).priceChangePercentage
          impact == BuysOn(c)[1].priceImpact
          initial == InitMarket[c].currentValue
      IN market[c].currentValue \in
           { ValueUp(MovedValue(initial, percentage), impact),
             MovedValue(ValueUp(initial, impact), percentage) }

\* The rows and the record a swap's statements write, as the tables hold them.
SwapReflected(db, stmts) ==
  /\ db.holding[stmts[1].user][stmts[1].code] = stmts[1].row
  /\ db.holding[stmts[2].user][stmts[2].code] = stmts[2].row
  /\ db.market[stmts[3].code].circulatingSupply = stmts[3].set.circulatingSupply
  /\ db.market[stmts[3].code].currentValue = stmts[3].set.currentValue
  /\ db.market[stmts[4].code].circulatingSupply = stmts[4].set.circulatingSupply
  /\ db.market[stmts[4].code].currentValue = stmts[4].set.currentValue
  /\ db.txlog # << >> /\ db.txlog[Len(db.txlog)] = stmts[5].rec

\* C15: a swap's writes commit together or not at all: while its transaction is open its
\* steps change no committed row; when it ends with success, both markets
\* (circulatingSupply and price), both holdings and the swap's Transaction
\* record are all written in that step; when it ends otherwise, a failure of
\* the target-side write after the source-side write included, no row has
\* changed.
C15_SwapAllOrNothing ==
  [][\A p \in Procs :
       (req[p].op = "swap" /\ pc[p] = "active"
          /\ (pc'[p] # "active" \/ applied'[p] # applied[p])) =>
         IF pc'[p] = "idle" /\ resp'[p] = "success"
           THEN SwapReflected([market |-> market', holding |-> holding',
                               txlog |-> txlog'], plan[p])
         ELSE UNCHANGED dbVars]_vars

\* A swap has failed on its target market's write, after it had issued the writes of
\* both holdings and of the source market, and the tables are as they were.
C15_Witness ==
  \E p \in Procs :
    /\ req[p].op = "swap" /\ pc[p] = "idle" /\ resp[p] = "error"
    /\ applied[p] = 3
    /\ market = InitMarket /\ holding = InitLockHolding /\ txlog = << >>

(* ------------------------------------------------------------------ *)
(* Properties of adjustTokenValue                                       *)
(* ------------------------------------------------------------------ *)

\* The price impact of a call and the cap on it, applied to a value.
ImpactOn(value, transactionType, amount, totalSupply) ==
  LET priceImpact == CalculatePriceImpact(amount, totalSupply)
      impact == Min(priceImpact, MaxDailyChange)
  IN IF transactionType = "buy" THEN MulDiv(value, RateScale + impact, RateScale)
     ELSE IF transactionType = "sell" THEN MulDiv(value, RateScale - impact, RateScale)
     ELSE value

\* Slot p's call of adjustTokenValue computes its new value in this step.
Adjusts(p) == pc[p] = "findWallet" /\ pc'[p] = "active"

\* C17: a call of adjustTokenValue on a market last updated `days` whole days ago saves
\* the price impact applied to the value decayed by (1 - dailyDecay)^days, the
\* decay first, and sets lastUpdated to now; a call on a market updated
\* today (one that follows another call at once) applies the impact to the
\* value as it is, with no further decay.
C17_DecayOncePerElapsedDay ==
  [][\A p \in Procs :
       Adjusts(p) =>
         LET r == req[p]
             m == snap[p].market[r.code]
             days == now - m.lastUpdated
             saved == plan'[p][1].set
         IN /\ saved.lastUpdated = now
            /\ days = 0 =>
                 saved.currentValue = ImpactOn(m.currentValue, r.type, r.amount, m.totalSupply)
            /\ days = 1 =>
                 saved.currentValue =
                   ImpactOn(MulDiv(m.currentValue, RateScale - DailyDecay, RateScale),
                            r.type, r.amount, m.totalSupply)
            /\ days > 1 =>
                 saved.currentValue =
                   ImpactOn(Decayed(m.currentValue, days), r.type, r.amount, m.totalSupply)]_vars

\* On the second day a second call has read a market that a first call decayed and
\* updated that day, and saves the impact on the value it read.
C17_Witness ==
  \E p \in Procs :
    LET r == req[p]
    IN /\ r.op = "processTransaction" /\ ~r.atomic /\ r.id = 2
       /\ pc[p] = "active" /\ Len(plan[p]) = 4
       /\ now = 1
       /\ r.code \in Codes
       /\ snap[p].market[r.code].lastUpdated = 1
       /\ snap[p].market[r.code].currentValue < InitMarket[r.code].currentValue
       /\ plan[p][1].set.currentValue =
            ImpactOn(snap[p].market[r.code].currentValue, r.type, r.amount,
                     snap[p].market[r.code].totalSupply)

\* C18: a token's value changes by at most 10% in a day: on the first day every market's
\* price is within 10% of the price it started the day with, whatever calls
\* of adjustTokenValue were made.
C18_DailyChangeCapped ==
  now = 0 =>
    \A c \in Codes :
      10 * Abs(market[c].currentValue - InitMarket[c].currentValue)
        <= InitMarket[c].currentValue

(* ------------------------------------------------------------------ *)
(* Properties of the random-walk tick and of the news events            *)
(* ------------------------------------------------------------------ *)

\* The statement of a plan that saves market c.
SaveOf(stmts, c) ==
  stmts[CHOOSE i \in DOMAIN stmts : stmts[i].tbl = "market" /\ stmts[i].code = c]

\* The result of a results array for market c.
ResultOf(res, c) == res[CHOOSE i \in DOMAIN res : res[i].institutionCode = c]

\* C16: in one random-walk tick, whatever the draws, every market gets one new price
\* within [0.95 x old, 1.05 x old] (to the rounding of the last decimal
\* kept), and that price is the market's own old price moved by the market's
\* own percentage, itself the clamped product of one triple of draws; the
\* commit writes exactly these prices.
C16_TickWithinFivePercent ==
  [][\A p \in Procs :
       /\ (Starts(p) /\ req'[p].op = "simulateMarketMovements") =>
            \A c \in Codes :
              LET old == market[c].currentValue
                  new == SaveOf(plan'[p], c).set.currentValue
                  percentage == ResultOf(results'[p], c).priceChangePercentage
              IN /\ 20 * Abs(new - old) <= old + 10
                 /\ Abs(percentage) <= MaxTickChange
                 /\ \E d \in MovementDraws : percentage = PriceChangePercentage(d)
                 /\ new = MulDiv(old, RateScale + percentage, RateScale)
       /\ (Commits(p) /\ req[p].op = "simulateMarketMovements") =>
            \A c \in Codes :
              /\ market'[c].currentValue = SaveOf(plan[p], c).set.currentValue
              /\ 20 * Abs(market'[c].currentValue - snap[p].market[c].currentValue)
                   <= snap[p].market[c].currentValue + 10]_vars

\* A tick has committed with draws beyond the clamp on both sides: the market priced 2.000
\* is at 2.100 and the one priced 4.000 at 3.800.
C16_Witness ==
  \E p \in Procs :
    /\ req[p].op = "simulateMarketMovements" /\ pc[p] = "idle" /\ resp[p] = "success"
    /\ nops = 1
    /\ ResultOf(results[p], "A").priceChangePercentage = MaxTickChange
    /\ ResultOf(results[p], "B").priceChangePercentage = 0 - MaxTickChange
    /\ market["A"].currentValue = 2100
    /\ market["B"].currentValue = 3800

\* The events of the table with a given title.
EventsTitled(title) == {i \in DOMAIN NewsEvents : NewsEvents[i].title = title}

\* C19: a call of simulateNewsEvents in which an event occurs selects exactly one event of
\* the table and saves every market with a percentage of the event's sign
\* between 80% and 120% of its stated impact, the new price being the old one
\* moved by that percentage, and its commit writes these prices and
\* lastUpdated; a call in which no event occurs issues no statement and
\* changes no market.
C19_NewsEvent ==
  [][\A p \in Procs :
       /\ (Starts(p) /\ req'[p].op = "simulateNewsEvents") =>
            /\ UNCHANGED dbVars
            /\ IF resp'[p] = "No significant news events today"
                 THEN pc'[p] = "idle" /\ plan'[p] = << >> /\ results'[p] = << >>
               ELSE \E i \in DOMAIN NewsEvents :
                      \A c \in Codes :
                        LET res == ResultOf(results'[p], c)
                            saved == SaveOf(plan'[p], c).set
                            impact == NewsEvents[i].impact
                        IN /\ EventsTitled(res.event) = {i}
                           /\ Sign(res.impactPercentage) = Sign(impact)
                           /\ 80 * Abs(impact) <= 100 * Abs(res.impactPercentage)
                           /\ 100 * Abs(res.impactPercentage) <= 120 * Abs(impact)
                           /\ saved.currentValue =
                                MulDiv(market[c].currentValue,
                                       RateScale + res.impactPercentage, RateScale)
                           /\ saved.lastUpdated = now
       /\ (Commits(p) /\ req[p].op = "simulateNewsEvents") =>
            \A c \in Codes :
              /\ market'[c].currentValue = SaveOf(plan[p], c).set.currentValue
              /\ market'[c].lastUpdated = SaveOf(plan[p], c).set.lastUpdated]_vars

\* "Budget Cuts Announced" (-4%) has been applied and committed: the market priced 2.000
\* moved by -3.2% to 1.936, the one priced 4.000 by -4.8% to 3.808.
C19_Witness ==
  \E p \in Procs :
    /\ req[p].op = "simulateNewsEvents" /\ pc[p] = "idle" /\ resp[p] = "success"
    /\ nops = 1
    /\ ResultOf(results[p], "A").event = "Budget Cuts Announced"
    /\ ResultOf(results[p], "A").impactPercentage = 0 - 320
    /\ ResultOf(results[p], "B").impactPercentage = 0 - 480
    /\ market["A"].currentValue = 1936
    /\ market["B"].currentValue = 3808

PassOps == {"simulateMarketMovements", "simulateNewsEvents", "applyMarketControls",
            "applyInstitutionReputationFactors"}

\* Slot p's pass ends in this step without success.
PassFails(p) ==
  /\ req[p].op \in PassOps
  /\ pc[p] = "active" /\ pc'[p] = "idle"
  /\ resp'[p] # "success"

\* C20: when a pass fails on one market, the adjustments of its other markets are still
\* committed: all markets of the pass but one hold, after the failing step,
\* the price and lastUpdated the pass saved for them.
C20_PassFailureIsolated ==
  [][\A p \in Procs :
       PassFails(p) =>
         \E failed \in Codes :
           \A c \in Codes \ {failed} :
             /\ market'[c].currentValue = SaveOf(plan[p], c).set.currentValue
             /\ market'[c].lastUpdated = SaveOf(plan[p], c).set.lastUpdated]_vars

(* ------------------------------------------------------------------ *)
(* Properties of the market rows under trades                           *)
(* ------------------------------------------------------------------ *)

\* C21: after any sequence of trades, no market has more tokens in circulation than its
\* totalSupply (a buy or swap that would exceed it does not commit).
C21_SupplyWithinTotal ==
  \A c \in Codes : market[c].circulatingSupply <= market[c].totalSupply

\* The trades of the executors.
IsTrade(r) == r.op \in TradeOps \/ r.op = "processTransaction"

\* The size of a trade in tokens: the controller's buy names a Naira amount, every other
\* trade names tokens.
TradeSize(r) ==
  IF r.op = "buy" /\ market[r.code].exists
    THEN TokensFor(r.amount, market[r.code].currentValue)
  ELSE r.amount

OutsideLimits(size) ==
  size < Tokens(MinTransactionAmount) \/ size > Tokens(MaxTransactionAmount)

\* C22: a buy, sell or swap whose size is below the minimum or above the maximum trade
\* size does not go ahead, on whichever executor it arrives: it is answered at
\* once with an error, issues no statement and changes no row.
C22_LimitsOnEveryPath ==
  [][\A p \in Procs :
       LET r == req'[p]
       IN Starts(p) /\ IsTrade(r) /\ OutsideLimits(TradeSize(r)) =>
            /\ pc'[p] = "idle"
            /\ resp'[p] \notin {"success", "pending"}
            /\ plan'[p] = << >>
            /\ UNCHANGED dbVars]_vars

\* C23: a committed buy raises the market's liquidityPool by the currency the buyer paid
\* and a committed sell lowers it by the proceeds the seller received: the
\* pool written differs from the pool the trade read by what left the
\* trader's wallet.
C23_LiquidityFollowsTrades ==
  [][\A p \in Procs :
       LET r == req[p]
       IN Commits(p) /\ (IsBuy(r) \/ IsSell(r)) =>
            market'[r.code].liquidityPool - snap[p].market[r.code].liquidityPool
              = snap[p].wallet[r.user].nairaBalance - wallet'[r.user].nairaBalance]_vars

\* The downward price impact an executor computes for a trade of a given size: the
\* controller from the market's liquidityPool, the service from its totalSupply.
SellImpact(r, m, tradeSize) ==
  IF r.op = "sell" THEN PriceImpact(tradeSize, m.liquidityPool)
  ELSE ValueChangePercentage(tradeSize, m.totalSupply)

\* The tokens a seller holds for r's institution in the rows `rows`.
TokensHeld(r, rows) ==
  IF r.op = "sell" THEN Balance(rows.holding[r.user][r.code])
  ELSE rows.wallet[r.user].stakedBalance

\* C24: a committed sell of tokenQty at the price p it read debits the seller's tokens by
\* tokenQty, credits the wallet with tokenQty x p x (1 - sellFeeRate), records
\* the fee kept in its Transaction, and moves the price down by the impact of a
\* trade whose size is those net proceeds.
C24_SellProceeds ==
  [][\A p \in Procs :
       LET r == req[p]
           m == snap[p].market[r.code]
           gross == NairaFor(r.amount, m.currentValue)
           fee == Portion(gross, SellFeeRate)
           proceeds == gross - fee
           now_rows == [holding |-> holding', wallet |-> wallet']
       IN Commits(p) /\ IsSell(r) =>
            /\ TokensHeld(r, now_rows) = TokensHeld(r, snap[p]) - r.amount
            /\ wallet'[r.user].nairaBalance = snap[p].wallet[r.user].nairaBalance + proceeds
            /\ txlog'[Len(txlog')].fee = fee
            /\ market'[r.code].currentValue
                 = ValueDown(m.currentValue, SellImpact(r, m, proceeds))]_vars

\* C25: after any sequence of trades, ticks, news events, circuit-breaker corrections,
\* reputation adjustments and decay, every market's price is strictly positive.
C25_PricePositive ==
  \A c \in AllCodes : market[c].exists => market[c].currentValue > 0

\* On the second day a sell has committed on a market and a pass has committed after it,
\* and the market's price, lower than at the start, is positive.
C25_Witness ==
  \E p \in Procs, c \in Codes :
    /\ now = 1
    /\ req[p].op \in PassOps /\ pc[p] = "idle" /\ resp[p] = "success"
    /\ Len(txlog) = 1 /\ txlog[1].transactionType = "sell" /\ txlog[1].tokenCode = c
    /\ market[c].currentValue < txlog[1].tokenPrice
    /\ market[c].currentValue > 0

(* ------------------------------------------------------------------ *)
(* Properties of market creation                                        *)
(* ------------------------------------------------------------------ *)

\* The step in which p attempts to create the market of c: the lookup or the INSERT
\* of initializeMarket, the INSERT of the lazy creation, or the end of a
\* populateTokenMarkets transaction that inserts c.
AttemptsCreation(p, c) ==
  \/ /\ pc[p] \in {"findExisting", "createMarket", "initializeMarket"}
     /\ req[p].code = c
     /\ pc'[p] # pc[p]
  \/ /\ req[p].op = "populateTokenMarkets"
     /\ pc[p] = "active"
     /\ pc'[p] = "idle"
     /\ \E i \in 1..Len(plan[p]) : plan[p][i].tbl = "newMarket" /\ plan[p][i].code = c

\* C26: a creation of a market for a code that has one by then fails, and the
\* market's price, supply and liquidity stay as they were; no market row ever
\* disappears or is replaced by a new one.
C26_OneMarketPerCode ==
  [][\A c \in AllCodes :
       market[c].exists =>
         /\ market'[c].exists
         /\ \A p \in Procs :
              AttemptsCreation(p, c) =>
                /\ pc'[p] = "idle"
                /\ resp'[p] \notin {"success", "pending"}
                /\ market'[c].currentValue = market[c].currentValue
                /\ market'[c].totalSupply = market[c].totalSupply
                /\ market'[c].circulatingSupply = market[c].circulatingSupply
                /\ market'[c].liquidityPool = market[c].liquidityPool]_vars

\* Two creations of Z ran concurrently: one created it and went on to trade, the
\* other failed, and the row carries the trade.
C26_Witness ==
  \E p, q \in Procs :
    /\ p # q
    /\ req[p].code = NoMarketCode /\ req[q].code = NoMarketCode
    /\ pc[p] = "idle" /\ resp[p] = "success" /\ req[p].op = "processTransaction"
    /\ pc[q] = "idle" /\ resp[q] = "error" /\ applied[q] = 0
    /\ req[q].op = "initializeMarket"
    /\ market[NoMarketCode].exists
    /\ market[NoMarketCode].currentValue # NewMarket.currentValue

(* ------------------------------------------------------------------ *)
(* Properties of the transaction log                                    *)
(* ------------------------------------------------------------------ *)

LogOps == {"buy", "sell", "swap", "deposit", "withdraw", "processTransaction"}

\* Slot p's request ends in this step, with the answer it gives.
Ends(p) == pc[p] # "idle" /\ pc'[p] = "idle"

\* The log keeps every record it had, as it was.
LogKept == Len(txlog') >= Len(txlog) /\ SubSeq(txlog', 1, Len(txlog)) = txlog

TransactionOpen(p) ==
  \/ pc[p] = "active" /\ req[p].atomic
  \/ req[p].leftOpen

\* C28: no path leaves its transaction open: once a request or pass has answered,
\* the transaction it opened is committed or rolled back.
C28_NoTransactionLeftOpen ==
  \A p \in Procs : pc[p] = "idle" => ~TransactionOpen(p)

(* ------------------------------------------------------------------ *)
(* Properties of the challenges                                         *)
(* ------------------------------------------------------------------ *)

\* The log has a reward record for challenge id of user u.
RewardPaid(u, id) ==
  \E k \in 1..Len(txlog) : /\ txlog[k].transactionType = "game"
                           /\ txlog[k].userId = u
                           /\ txlog[k].challengeId = id

\* The rewards of user u's challenges from id on that have been paid, each counted
\* once.
RECURSIVE RewardsOf(_, _)
RewardsOf(u, id) ==
  IF id > Len(challenges[u]) THEN 0
  ELSE (IF RewardPaid(u, id) THEN challenges[u][id].reward ELSE 0) + RewardsOf(u, id + 1)

\* The stakes the log says were returned to user u.
RECURSIVE Unstaked(_, _)
Unstaked(log, u) ==
  IF log = << >> THEN 0
  ELSE (IF Head(log).transactionType = "unstake" /\ Head(log).userId = u
          THEN Head(log).amount ELSE 0) + Unstaked(Tail(log), u)

\* What user u's wallet has gained from rewards.
RewardsCredited(u) ==
  wallet[u].nairaBalance - InitWallet[u].nairaBalance - Unstaked(txlog, u)

\* A completed challenge does not become active again.
NeverActiveAgain ==
  \A u \in Users : \A id \in DOMAIN challenges[u] :
    challenges[u][id].status = "completed" =>
      id \in DOMAIN challenges'[u] /\ challenges'[u][id].status # "active"

\* C29: over any interleaving of completeChallenge requests and the scheduled
\* passes, a wallet gains each challenge's reward at most once, and a completed
\* challenge's status never returns to 'active'.
C29_RewardAtMostOnce ==
  /\ [](\A u \in Users : RewardsCredited(u) <= RewardsOf(u, 1))
  /\ [][NeverActiveAgain]_vars

(* ------------------------------------------------------------------ *)
(* Properties of the cached market fields                               *)
(* ------------------------------------------------------------------ *)

\* The Naira a trade moved through market c, as its Transaction record tells it:
\* the target market of a swap sees the value after the fee.
Notional(rec, c) ==
  IF rec.transactionType = "swap" /\ c = rec.targetTokenCode
    THEN rec.amount - rec.fee
    ELSE rec.amount

\* The row of market c carries a date of slot p's request: not before the row it
\* read, not after the commit.
Stamped(p, c) ==
  /\ snap[p].market[c].lastUpdated <= market'[c].lastUpdated
  /\ market'[c].lastUpdated <= now

\* Market c after the commit of slot p's trade: the cap follows price and supply,
\* the volume has grown by the trade's notional, the row is stamped.
CacheRefreshed(p, c) ==
  /\ market'[c].marketCap = NairaFor(market'[c].circulatingSupply, market'[c].currentValue)
  /\ market'[c].volume24h = market[c].volume24h + Notional(txlog'[Len(txlog')], c)
  /\ Stamped(p, c)

\* Market c after the commit of slot p's pass, which moves prices only.
PriceOnly(p, c) ==
  /\ market'[c].marketCap = market[c].marketCap
  /\ market'[c].volume24h = market[c].volume24h
  /\ market'[c].circulatingSupply = market[c].circulatingSupply
  /\ market'[c].liquidityPool = market[c].liquidityPool
  /\ Stamped(p, c)

\* C30: the commit of a buy, sell or swap leaves each market it touched with
\* marketCap = price x circulatingSupply, volume24h grown by the trade's notional
\* and lastUpdated set; the commit of simulateMarketMovements changes price and
\* lastUpdated only.
C30_CachedFields ==
  [][\A p \in Procs :
       /\ Commits(p) /\ req[p].op \in TradeOps =>
            \A c \in TouchedMarkets(req[p]) : CacheRefreshed(p, c)
       /\ Commits(p) /\ req[p].op = "simulateMarketMovements" =>
            \A c \in Codes : PriceOnly(p, c)]_vars
====
